---- MODULE Spec2Model ----
(***************************************************************************)
(* Modbus/TCP slave simulator: register store, lazy refresh of generated   *)
(* values, MBAP framing and the per-connection worker loop.                *)
(*                                                                         *)
(* Values are tagged records [t, n, s]:                                    *)
(*   t = "int"   : Python int n                                            *)
(*   t = "bool"  : Python bool, n in {0,1}                                 *)
(*   t = "float" : Python float of value n/2 (n counts halves)             *)
(*   t = "str"   : Python str, s is the sequence of its code points        *)
(* Time is counted in whole seconds.  Bytes are integers 0..255 and a      *)
(* frame is a sequence of bytes.                                           *)
(***************************************************************************)
EXTENDS Integers, Sequences, FiniteSets, TLC

----------------------------------------------------------------------------
(* Bounds of the model                                                     *)

MaxTime == 2
MaxAcc == 6
\* the number of times the GUI starts the server
MaxStarts == 2

----------------------------------------------------------------------------
(* Values                                                                  *)

IntV(n) == [t |-> "int", n |-> n, s |-> <<>>]
BoolV(b) == [t |-> "bool", n |-> IF b THEN 1 ELSE 0, s |-> <<>>]
FloatV(h) == [t |-> "float", n |-> h, s |-> <<>>]
StrV(s) == [t |-> "str", n |-> 0, s |-> s]
\* float('inf')
InfV == [t |-> "inf", n |-> 1, s |-> <<>>]
\* the value of config.get('current_value') of an entry without that key
NoValue == [t |-> "none", n |-> 0, s |-> <<>>]

Abs(n) == IF n < 0 THEN -n ELSE n
Min(a, b) == IF a < b THEN a ELSE b
Max(a, b) == IF a > b THEN a ELSE b

RECURSIVE Pow2(_)
Pow2(k) == IF k = 0 THEN 1 ELSE 2 * Pow2(k - 1)

RECURSIVE Log2(_)
Log2(m) == IF m < 2 THEN 0 ELSE 1 + Log2(m \div 2)

And16(n) == n % 65536

IsDigits(s) == Len(s) > 0 /\ \A i \in 1..Len(s) : s[i] \in 48..57

RECURSIVE DecValue(_)
DecValue(s) ==
  IF Len(s) = 0 THEN 0
  ELSE 10 * DecValue(SubSeq(s, 1, Len(s) - 1)) + (s[Len(s)] - 48)

IsNumeral(s) ==
  \/ IsDigits(s)
  \/ Len(s) > 1 /\ s[1] \in {43, 45} /\ IsDigits(Tail(s))

NumeralValue(s) ==
  IF s[1] = 45 THEN -DecValue(Tail(s))
  ELSE IF s[1] = 43 THEN DecValue(Tail(s))
  ELSE DecValue(s)

RECURSIVE DecDigits(_)
DecDigits(n) ==
  IF n < 10 THEN <<48 + n>> ELSE Append(DecDigits(n \div 10), 48 + (n % 10))

IntRepr(n) == IF n < 0 THEN <<45>> \o DecDigits(-n) ELSE DecDigits(n)

FloatRepr(h) ==
  (IF h < 0 THEN <<45>> ELSE <<>>) \o DecDigits(Abs(h) \div 2)
     \o <<46>> \o (IF Abs(h) % 2 = 1 THEN <<53>> ELSE <<48>>)

\* int(value): defined when PyIntOk; it raises ValueError for a string that
\* is no numeral and OverflowError for an infinity
PyIntOk(v) == v.t \in {"int", "bool", "float"} \/ (v.t = "str" /\ IsNumeral(v.s))

PyInt(v) ==
  CASE v.t = "int" -> v.n
    [] v.t = "bool" -> v.n
    [] v.t = "float" -> IF v.n >= 0 THEN v.n \div 2 ELSE -((-v.n) \div 2)
    [] OTHER -> NumeralValue(v.s)

\* float(value), in halves: defined when PyFloatOk
PyFloatOk(v) == v.t \in {"int", "bool", "float"} \/ (v.t = "str" /\ IsNumeral(v.s))

PyFloat(v) ==
  CASE v.t = "int" -> 2 * v.n
    [] v.t = "bool" -> 2 * v.n
    [] v.t = "float" -> v.n
    [] OTHER -> 2 * NumeralValue(v.s)

PyBool(v) ==
  CASE v.t = "str" -> Len(v.s) > 0
    [] OTHER -> v.n # 0

PyStr(v) ==
  CASE v.t = "int" -> IntRepr(v.n)
    [] v.t = "bool" -> IF v.n = 1 THEN <<84, 114, 117, 101>>
                       ELSE <<70, 97, 108, 115, 101>>
    [] v.t = "float" -> FloatRepr(v.n)
    [] v.t = "inf" -> <<105, 110, 102>>
    [] OTHER -> v.s

----------------------------------------------------------------------------
(* Type conversion and packing                                             *)

DataTypes ==
  {"int16", "uint16", "int32", "uint32", "float32", "float64", "bool", "string"}

Mask32(n) == ((n \div 65536) % 65536) * 65536 + (n % 65536)

(* int(value) raises OverflowError for an infinity; the except clause of    *)
(* convert_to_data_type names ValueError and TypeError only, so the error  *)
(* leaves the function.                                                    *)
Overflow(value, data_type) ==
  value.t = "inf" /\ data_type \notin {"float32", "float64", "bool", "string"}

\* the value convert_to_data_type returns (when it returns: ~Overflow)
convert_to_data_type(value, data_type) ==
  CASE data_type \in {"int16", "uint16"} ->
         IF PyIntOk(value) THEN IntV(And16(PyInt(value))) ELSE IntV(0)
    [] data_type = "int32" ->
         IF PyIntOk(value) THEN IntV(PyInt(value)) ELSE IntV(0)
    [] data_type = "uint32" ->
         IF PyIntOk(value) THEN IntV(Mask32(PyInt(value))) ELSE IntV(0)
    [] data_type \in {"float32", "float64"} ->
         IF value.t = "inf" THEN value
         ELSE IF PyFloatOk(value) THEN FloatV(PyFloat(value)) ELSE IntV(0)
    [] data_type = "bool" -> BoolV(PyBool(value))
    [] data_type = "string" -> StrV(PyStr(value))
    [] OTHER ->
         IF PyIntOk(value) THEN IntV(And16(PyInt(value))) ELSE IntV(0)

\* struct.pack('>f', h/2) as two big-endian 16-bit words
Float32Words(h) ==
  IF h = 0 THEN <<0, 0>>
  ELSE LET m == Abs(h)
           p == Log2(m)
           mant == (m - Pow2(p)) * Pow2(23 - p)
           sgn == IF h < 0 THEN 32768 ELSE 0
       IN <<sgn + (p + 126) * 128 + (mant \div 65536), mant % 65536>>

\* struct.pack('>d', h/2) as four big-endian 16-bit words
Float64Words(h) ==
  IF h = 0 THEN <<0, 0, 0, 0>>
  ELSE LET m == Abs(h)
           p == Log2(m)
           top == (m - Pow2(p)) * Pow2(20 - p)
           sgn == IF h < 0 THEN 32768 ELSE 0
       IN <<sgn + (p + 1022) * 16 + (top \div 65536), top % 65536, 0, 0>>

StrWords(s) ==
  LET t == SubSeq(s, 1, Min(Len(s), 125))
  IN [i \in 1..Len(t) |-> And16(t[i])]

\* variant: the two words of a 32-bit integer are placed least significant
\* word first
pack_value_low_word_first(value, data_type) ==
  CASE data_type \in {"int16", "uint16"} ->
         IF PyIntOk(value) THEN <<And16(PyInt(value))>> ELSE <<0>>
    [] data_type \in {"int32", "uint32"} ->
         IF PyIntOk(value)
         THEN <<And16(PyInt(value)), And16(PyInt(value) \div 65536)>>
         ELSE <<0>>
    [] data_type = "float32" ->
         IF value.t = "inf" THEN <<32640, 0>>
         ELSE IF PyFloatOk(value) THEN Float32Words(PyFloat(value)) ELSE <<0>>
    [] data_type = "float64" ->
         IF value.t = "inf" THEN <<32752, 0, 0, 0>>
         ELSE IF PyFloatOk(value) THEN Float64Words(PyFloat(value)) ELSE <<0>>
    [] data_type = "bool" -> <<IF PyBool(value) THEN 1 ELSE 0>>
    [] data_type = "string" -> StrWords(PyStr(value))
    [] OTHER ->
         IF PyIntOk(value) THEN <<And16(PyInt(value))>> ELSE <<0>>

pack_value_to_registers(value, data_type) ==
  CASE data_type \in {"int16", "uint16"} ->
         IF PyIntOk(value) THEN <<And16(PyInt(value))>> ELSE <<0>>
    [] data_type \in {"int32", "uint32"} ->
         IF PyIntOk(value)
         THEN <<And16(PyInt(value) \div 65536), And16(PyInt(value))>>
         ELSE <<0>>
    [] data_type = "float32" ->
         IF value.t = "inf" THEN <<32640, 0>>
         ELSE IF PyFloatOk(value) THEN Float32Words(PyFloat(value)) ELSE <<0>>
    [] data_type = "float64" ->
         IF value.t = "inf" THEN <<32752, 0, 0, 0>>
         ELSE IF PyFloatOk(value) THEN Float64Words(PyFloat(value)) ELSE <<0>>
    [] data_type = "bool" -> <<IF PyBool(value) THEN 1 ELSE 0>>
    [] data_type = "string" -> StrWords(PyStr(value))
    [] OTHER ->
         IF PyIntOk(value) THEN <<And16(PyInt(value))>> ELSE <<0>>

get_register_count(data_type) == Len(pack_value_to_registers(IntV(0), data_type))

----------------------------------------------------------------------------
(* Value producers                                                         *)
(*                                                                         *)
(* The 'value' of an entry is a literal or a callable.  A callable is a    *)
(* record naming the closure that built it and its captured parameters;    *)
(* id names the captured mutable cell `current` of ramp_func and           *)
(* random_increment_func (0 when there is none).                           *)

Const(v) ==
  [kind |-> "const", v |-> v, a |-> 0, b |-> 0, c |-> 0, lst |-> <<>>, id |-> 0]
Fn(kind, a, b, c, lst, id) ==
  [kind |-> kind, v |-> IntV(0), a |-> a, b |-> b, c |-> c, lst |-> lst, id |-> id]

callable(value) == value.kind # "const"

\* len(inspect.signature(value).parameters)
param_count(value) == IF value.kind = "randint2" THEN 2 ELSE 0

\* numeric value in halves, for comparisons between ints and floats
Halves(v) ==
  IF v.t = "float" THEN v.n ELSE IF v.t = "inf" THEN 2147483647 ELSE 2 * v.n

\* the r-th outcome of a uniform draw from lo..hi
Pick(r, lo, hi) ==
  IF r = 0 THEN lo ELSE IF r = 1 THEN hi ELSE lo + ((r - 1) % (hi - lo + 1))

IntTypes == {"int16", "uint16", "int32", "uint32"}

(* Calling the callable with the arguments args (a sequence of numbers),   *)
(* at time t, with random outcome r and captured cells clo.  The result is *)
(* [ok, v, clo]: ok is FALSE when the call raises.                         *)
Raise(clo) == [ok |-> FALSE, v |-> IntV(0), clo |-> clo]
Return(v, clo) == [ok |-> TRUE, v |-> v, clo |-> clo]

boolean_func(r, clo) == Return(IntV(r % 2), clo)

lambda_bool(r, clo) == Return(BoolV(r % 2 = 1), clo)

periodic_boolean_func(period, t, clo) ==
  IF period = 0 THEN Raise(clo)
  ELSE Return(IntV(IF (t % period) < (period \div 2) THEN 1 ELSE 0), clo)

random_func(min_val, max_val, isFloat, r, clo) ==
  IF isFloat = 1 THEN Return(FloatV(Pick(r, 2 * min_val, 2 * max_val)), clo)
  ELSE IF max_val < min_val THEN Raise(clo)
  ELSE Return(IntV(Pick(r, min_val, max_val)), clo)

random_list_func(number_list, r, clo) ==
  IF Len(number_list) = 0 THEN Raise(clo)
  ELSE Return(number_list[(r % Len(number_list)) + 1], clo)

ramp_func(step, max_value, id, clo) ==
  IF max_value = 0 THEN Raise(clo)
  ELSE LET cur == (clo[id] + step) % max_value
       IN Return(IntV(cur), [clo EXCEPT ![id] = cur])

random_increment_func(min_step, max_step, id, r, clo) ==
  IF max_step < min_step THEN Raise(clo)
  ELSE LET cur == clo[id] + Pick(r, min_step, max_step)
       IN Return(IntV(cur), [clo EXCEPT ![id] = cur])

bit_func(clo) == Return(IntV(0), clo)

Call(value, args, t, r, clo) ==
  IF Len(args) # param_count(value) THEN Raise(clo)
  ELSE CASE value.kind = "boolean_func" -> boolean_func(r, clo)
         [] value.kind = "lambda_bool" -> lambda_bool(r, clo)
         [] value.kind = "periodic_boolean_func" ->
              periodic_boolean_func(value.a, t, clo)
         [] value.kind = "random_func" ->
              random_func(value.a, value.b, value.c, r, clo)
         [] value.kind = "random_list_func" ->
              random_list_func(value.lst, r, clo)
         [] value.kind = "ramp_func" ->
              ramp_func(value.a, value.b, value.id, clo)
         [] value.kind = "random_increment_func" ->
              random_increment_func(value.a, value.b, value.id, r, clo)
         [] value.kind = "randint2" ->
              random_func(args[1], args[2], 0, r, clo)
         [] OTHER -> bit_func(clo)

\* the closure-cell test: some captured variable is a list of one int
is_random_increment(value) ==
  \/ value.kind \in {"ramp_func", "random_increment_func"}
  \/ /\ value.kind = "random_list_func"
     /\ Len(value.lst) = 1
     /\ value.lst[1].t \in {"int", "bool"}

(* generate_data(config, current_time): [v, clo, raised], the converted    *)
(* value and the captured cells after the call.  Inside the try block of   *)
(* the callable branch every exception ends in convert_to_data_type(0).    *)
Generated(res, data_type) ==
  [v |-> convert_to_data_type(IF res.ok /\ ~Overflow(res.v, data_type)
                              THEN res.v ELSE IntV(0), data_type),
   clo |-> res.clo, raised |-> FALSE]

\* max(data_range[0], min(data_range[1], result))
Clamp(dr, result) ==
  LET inner == IF Halves(result) < 2 * dr[2] THEN result ELSE IntV(dr[2])
  IN IF Halves(inner) > 2 * dr[1] THEN inner ELSE IntV(dr[1])

\* the zero-argument branch under a data_range of one or two numbers: the
\* result res of the call is compared with the range and clamped to it
RangeChecked(res, value, dr) ==
  IF ~res.ok \/ res.v.t = "str" THEN Raise(res.clo)
  ELSE IF Halves(res.v) >= 2 * dr[1] /\ Len(dr) < 2 THEN Raise(res.clo)
  ELSE IF Halves(res.v) < 2 * dr[1] \/ Halves(res.v) > 2 * dr[2]
  THEN IF is_random_increment(value) THEN res
       ELSE IF Len(dr) < 2 THEN Raise(res.clo)
       ELSE Return(Clamp(dr, res.v), res.clo)
  ELSE res

\* the body of the try block: the outcome [ok, v, clo] before conversion
Evaluate(value, dr, t, r, clo) ==
  IF ~callable(value) THEN Return(value.v, clo)
  ELSE IF Len(dr) > 0 /\ Len(dr) <= 2
  THEN IF param_count(value) = 2
       THEN IF Len(dr) < 2 THEN Raise(clo)
            ELSE Call(value, <<dr[1], dr[2]>>, t, r, clo)
       ELSE RangeChecked(Call(value, <<>>, t, r, clo), value, dr)
  ELSE Call(value, <<>>, t, r, clo)

\* the fixed-value branch lies outside the try block: an OverflowError of
\* the conversion leaves generate_data
generate_data(config, t, r, clo) ==
  IF ~callable(config.value) /\ Overflow(config.value.v, config.data_type)
  THEN [v |-> NoValue, clo |-> clo, raised |-> TRUE]
  ELSE Generated(Evaluate(config.value, config.data_range, t, r, clo),
                 config.data_type)

----------------------------------------------------------------------------
(* Register store                                                          *)
(*                                                                         *)
(* A Python dict is a sequence of records in insertion order with unique   *)
(* keys (field addr, or field bit inside an overlay).  A store is the      *)
(* record [dc, bc, clo, calls]: data_config, bit_config, the captured      *)
(* cells of the stateful callables and the log of generate_data calls made *)
(* by the operation in progress (each call names <<space, addr, bit>>,     *)
(* bit = -1 for a register entry).                                         *)

Spaces == {"coils", "discrete_inputs", "holding_registers", "input_registers"}
BitSpaces == {"holding_registers", "input_registers"}

\* the outcomes of the random module: rnd is the outcome the callables of
\* one operation draw
RandSpan == 2
Draws == 0..(RandSpan - 1)

HasKey(d, a) == \E i \in 1..Len(d) : d[i].addr = a
IndexOf(d, a) == CHOOSE i \in 1..Len(d) : d[i].addr = a
Get(d, a) == d[IndexOf(d, a)]
DictSet(d, rec) ==
  IF HasKey(d, rec.addr) THEN [d EXCEPT ![IndexOf(d, rec.addr)] = rec]
  ELSE Append(d, rec)

HasBit(bits, b) == \E i \in 1..Len(bits) : bits[i].bit = b
BitIndexOf(bits, b) == CHOOSE i \in 1..Len(bits) : bits[i].bit = b
BitSet(bits, rec) ==
  IF HasBit(bits, rec.bit) THEN [bits EXCEPT ![BitIndexOf(bits, rec.bit)] = rec]
  ELSE Append(bits, rec)

EmptyStore(clo) ==
  [dc |-> [sp \in Spaces |-> <<>>], bc |-> [sp \in BitSpaces |-> <<>>],
   clo |-> clo, calls |-> <<>>, raised |-> FALSE]

(* config['last_update'] = current_time;                                   *)
(* config['current_value'] = self.generate_data(config, current_time)      *)
(* when generate_data raises, last_update is set and current_value is not  *)
Regenerated(c1, key, S, g) ==
  [config |-> IF g.raised THEN c1 ELSE [c1 EXCEPT !.current_value = g.v],
   clo |-> g.clo, calls |-> Append(S.calls, key), raised |-> g.raised]

Regenerate(config, key, S, t, rnd) ==
  Regenerated([config EXCEPT !.last_update = t], key, S,
              generate_data([config EXCEPT !.last_update = t], t,
                            rnd, S.clo))

\* variant: an entry is due only after more than its interval has passed
IsDueStrict(config, t) == t - config.last_update > config.interval

IsDue(config, t) == t - config.last_update >= config.interval

\* variant: a refresh on a read also lengthens the interval of the entry
RefreshAndSlow(config, key, S, t, rnd) ==
  IF IsDue(config, t)
  THEN [Regenerate(config, key, S, t, rnd) EXCEPT !.config.interval = @ + 1]
  ELSE [config |-> config, clo |-> S.clo, calls |-> S.calls, raised |-> FALSE]

(* if current_time - config['last_update'] >= config['interval']: ...      *)
RefreshIfDue(config, key, S, t, rnd) ==
  IF IsDue(config, t) THEN Regenerate(config, key, S, t, rnd)
  ELSE [config |-> config, clo |-> S.clo, calls |-> S.calls, raised |-> FALSE]

\* the store after a (re)generated register entry g = [config, clo, calls]
\* is written back under its address
PutEntry(S, address_type, g) ==
  [S EXCEPT !.dc[address_type] = DictSet(@, g.config),
            !.clo = g.clo, !.calls = g.calls, !.raised = g.raised]

\* the same for a bit entry of the overlay at address
PutBit(S, address_type, address, g) ==
  [S EXCEPT !.bc[address_type] =
              DictSet(@, [addr |-> address,
                          bits |-> BitSet(Get(S.bc[address_type], address).bits,
                                          g.config)]),
            !.clo = g.clo, !.calls = g.calls, !.raised = g.raised]

set_data_config(S, address_type, address, value, interval, data_range, data_type, t, rnd) ==
  IF address_type \notin Spaces
  THEN [S EXCEPT !.calls = <<>>, !.raised = TRUE]
  ELSE PutEntry([S EXCEPT !.calls = <<>>], address_type,
         Regenerate([addr |-> address, value |-> value, interval |-> interval,
                     last_update |-> 0, data_range |-> data_range,
                     data_type |-> data_type, current_value |-> NoValue],
                    <<address_type, address, -1>>,
                    [S EXCEPT !.calls = <<>>], t, rnd))

(* set_bit_config: bit_configs is a sequence of [bit, value, interval,     *)
(* data_range] in the iteration order of the dict.  The loop stops at the  *)
(* first bit outside 0..15 (ValueError); what it installed before stays.   *)
RECURSIVE SetBits(_, _, _, _, _, _, _)
SetBits(S, address_type, address, bit_configs, k, t, rnd) ==
  IF k > Len(bit_configs) THEN S
  ELSE IF bit_configs[k].bit < 0 \/ bit_configs[k].bit > 15
  THEN [S EXCEPT !.raised = TRUE]
  ELSE SetBits(
         PutBit(S, address_type, address,
           Regenerate([bit |-> bit_configs[k].bit, value |-> bit_configs[k].value,
                       interval |-> bit_configs[k].interval, last_update |-> 0,
                       data_range |-> bit_configs[k].data_range,
                       data_type |-> "bool", current_value |-> NoValue],
                      <<address_type, address, bit_configs[k].bit>>, S, t, rnd)),
         address_type, address, bit_configs, k + 1, t, rnd)

\* variant: a space without overlays is passed over without an error
set_bit_config_silent(S, address_type, address, bit_configs, t, rnd) ==
  IF address_type \notin BitSpaces
  THEN [S EXCEPT !.calls = <<>>]
  ELSE SetBits(IF HasKey(S.bc[address_type], address)
               THEN [S EXCEPT !.calls = <<>>]
               ELSE [S EXCEPT !.calls = <<>>,
                              !.bc[address_type] =
                                 Append(@, [addr |-> address, bits |-> <<>>])],
               address_type, address, bit_configs, 1, t, rnd)

set_bit_config(S, address_type, address, bit_configs, t, rnd) ==
  IF address_type \notin BitSpaces
  THEN [S EXCEPT !.calls = <<>>, !.raised = TRUE]
  ELSE SetBits(IF HasKey(S.bc[address_type], address)
               THEN [S EXCEPT !.calls = <<>>]
               ELSE [S EXCEPT !.calls = <<>>,
                              !.bc[address_type] =
                                 Append(@, [addr |-> address, bits |-> <<>>])],
               address_type, address, bit_configs, 1, t, rnd)

----------------------------------------------------------------------------
(* Snapshot and reset                                                      *)

\* the iteration order of the dict data_config
SpaceOrder ==
  <<"coils", "discrete_inputs", "holding_registers", "input_registers">>

\* bool(d) of a dict: it has a key
Truthy(d) == DOMAIN d # {}

(* reset_data, else branch: every entry of every space is regenerated at   *)
(* time t; i is the position in SpaceOrder, k the position in the dict.    *)
RECURSIVE Reinitialise(_, _, _, _, _)
Reinitialise(S, i, k, t, rnd) ==
  IF i > Len(SpaceOrder) \/ S.raised THEN S
  ELSE IF k > Len(S.dc[SpaceOrder[i]]) THEN Reinitialise(S, i + 1, 1, t, rnd)
  ELSE Reinitialise(
         PutEntry(S, SpaceOrder[i],
                  Regenerate(S.dc[SpaceOrder[i]][k],
                             <<SpaceOrder[i], S.dc[SpaceOrder[i]][k].addr, -1>>,
                             S, t, rnd)),
         i, k + 1, t, rnd)

(* reset_data() on the store S with snapshot original: [S, aliased].  With *)
(* a snapshot that is a non-empty dict, self.data_config becomes the       *)
(* snapshot object itself; is tells whether it was that object before.     *)
reset_data(S, original, is, t, rnd) ==
  IF Truthy(original)
  THEN [S |-> [S EXCEPT !.dc = original, !.calls = <<>>], aliased |-> TRUE]
  ELSE [S |-> Reinitialise([S EXCEPT !.calls = <<>>], 1, 1, t, rnd),
        aliased |-> is]

(* apply_config_to_simulator on a simulator whose dicts were just emptied: *)
(* the set_data_config and set_bit_config calls of cmds in order, up to    *)
(* the first one that raises.                                              *)
RECURSIVE ApplyAll(_, _, _, _, _)
ApplyAll(S, cmds, k, t, rnd) ==
  IF k > Len(cmds) \/ S.raised THEN S
  ELSE ApplyAll(
         IF cmds[k].cmd = "data"
         THEN set_data_config(S, cmds[k].address_type, cmds[k].address,
                              cmds[k].value, cmds[k].interval,
                              cmds[k].data_range, cmds[k].data_type, t, rnd)
         ELSE set_bit_config(S, cmds[k].address_type, cmds[k].address,
                             cmds[k].bits, t, rnd),
         cmds, k + 1, t, rnd)

apply_config_to_simulator(clo, cmds, t, rnd) ==
  ApplyAll(EmptyStore(clo), cmds, 1, t, rnd)

----------------------------------------------------------------------------
(* Read assembly                                                           *)

\* l[i:j] and l[i:j] = src for Python lists, 0 <= i, 0 <= j (0-based)
PySlice(l, i, j) == SubSeq(l, Min(i, Len(l)) + 1, Min(j, Len(l)))
SliceAssign(l, i, j, src) ==
  LET lo == Min(i, Len(l))
      hi == Max(Min(j, Len(l)), lo)
  IN SubSeq(l, 1, lo) \o src \o SubSeq(l, hi + 1, Len(l))

BitOf(w, b) == (w \div Pow2(b)) % 2
\* register_value |= (1 << bit)  and  register_value &= ~(1 << bit)
OrBit(w, b) == IF BitOf(w, b) = 1 THEN w ELSE w + Pow2(b)
AndNotBit(w, b) == IF BitOf(w, b) = 1 THEN w - Pow2(b) ELSE w

MaxQuantityBits == 2000
MaxQuantityRegs == 125
max_quantity(function_code) ==
  IF function_code \in {1, 2} THEN MaxQuantityBits ELSE MaxQuantityRegs

address_type_map(function_code) ==
  CASE function_code = 1 -> "coils"
    [] function_code = 2 -> "discrete_inputs"
    [] function_code = 3 -> "holding_registers"
    [] function_code = 4 -> "input_registers"
    [] OTHER -> "none"

SetMin(A) == CHOOSE a \in A : \A b \in A : a <= b

\* config.get('current_value', config['value'])
Value(config) ==
  IF config.current_value = NoValue THEN config.value.v
  ELSE config.current_value

(* FC1/FC2: for i in range(quantity): refresh the entry at start+i if it   *)
(* is configured and due.  todo is the set of configured addresses of the  *)
(* window not yet visited; they are visited in ascending order.            *)
RECURSIVE RefreshBits(_, _, _, _, _)
RefreshBits(S, address_type, todo, t, rnd) ==
  IF todo = {} \/ S.raised THEN S
  ELSE RefreshBits(
         PutEntry(S, address_type,
                  RefreshIfDue(Get(S.dc[address_type], SetMin(todo)),
                               <<address_type, SetMin(todo), -1>>, S, t, rnd)),
         address_type, todo \ {SetMin(todo)}, t, rnd)

\* register_value after bit_cfg is applied to it
WithBit(register_value, bit_cfg) ==
  IF PyBool(Value(bit_cfg)) THEN OrBit(register_value, bit_cfg.bit)
  ELSE AndNotBit(register_value, bit_cfg.bit)

(* generate_register_with_bits(address_type, address, current_time):      *)
(* [S, register_value].  ApplyBits is the loop over the overlay's bits in  *)
(* dict order, k the position; ApplyBit is the rest of one iteration once  *)
(* the bit entry has been refreshed in S.                                  *)
RECURSIVE ApplyBits(_, _, _, _, _, _, _)
RECURSIVE ApplyBit(_, _, _, _, _, _, _)
ApplyBit(S, address_type, address, k, register_value, t, rnd) ==
  ApplyBits(S, address_type, address, k + 1,
            WithBit(register_value, Get(S.bc[address_type], address).bits[k]),
            t, rnd)

ApplyBits(S, address_type, address, k, register_value, t, rnd) ==
  IF k > Len(Get(S.bc[address_type], address).bits)
  THEN [S |-> S, register_value |-> register_value]
  ELSE ApplyBit(
         PutBit(S, address_type, address,
                RefreshIfDue(Get(S.bc[address_type], address).bits[k],
                             <<address_type, address,
                               Get(S.bc[address_type], address).bits[k].bit>>,
                             S, t, rnd)),
         address_type, address, k, register_value, t, rnd)

\* int(base_value) & 0xFFFF of the entry at address, 0 without a numeric one
BaseWord(S, address_type, address) ==
  IF /\ HasKey(S.dc[address_type], address)
     /\ Value(Get(S.dc[address_type], address)).t # "str"
  THEN And16(PyInt(Value(Get(S.dc[address_type], address))))
  ELSE 0

\* int(base_value) raises OverflowError: the base value is an infinity
BaseOverflow(S, address_type, address) ==
  /\ HasKey(S.dc[address_type], address)
  /\ Value(Get(S.dc[address_type], address)).t = "inf"

\* the overlay of address applied to the base word of the refreshed store
OverlayOn(S, address_type, address, t, rnd) ==
  IF S.raised THEN [S |-> S, register_value |-> 0]
  ELSE IF BaseOverflow(S, address_type, address)
  THEN [S |-> [S EXCEPT !.raised = TRUE], register_value |-> 0]
  ELSE IF HasKey(S.bc[address_type], address)
  THEN ApplyBits(S, address_type, address, 1,
                 BaseWord(S, address_type, address), t, rnd)
  ELSE [S |-> S, register_value |-> BaseWord(S, address_type, address)]

generate_register_with_bits(S, address_type, address, t, rnd) ==
  OverlayOn(IF HasKey(S.dc[address_type], address)
            THEN PutEntry(S, address_type,
                   RefreshIfDue(Get(S.dc[address_type], address),
                                <<address_type, address, -1>>, S, t, rnd))
            ELSE S,
            address_type, address, t, rnd)

\* variant: the packed registers are copied without cutting at the window end
CopyInWindowUncut(out, registers, start_index, quantity) ==
  SliceAssign(out, start_index, start_index + Len(registers), registers)

(* An entry whose address lies in the window: its packed registers go to  *)
(* response_data[start_index:], cut at the end of the window.              *)
CopyInWindow(out, registers, start_index, quantity) ==
  LET n == Len(registers)
      end_index == start_index + n
  IN IF end_index <= quantity
     THEN SliceAssign(out, start_index, end_index, registers)
     ELSE SliceAssign(out, start_index, quantity,
                      PySlice(registers, 0, quantity - start_index))

(* An entry that starts before the window and reaches into it: the packed  *)
(* registers from overlap_start on go to the head of response_data.        *)
CopyStraddling(out, registers, overlap_start, quantity) ==
  LET registers_to_copy == PySlice(registers, overlap_start, Len(registers))
      copy_count == Min(Len(registers_to_copy), quantity)
  IN SliceAssign(out, 0, copy_count, PySlice(registers_to_copy, 0, copy_count))

\* response_data after the packed registers of the entry config are copied
Copied(out, config, start_address, quantity) ==
  IF config.addr >= start_address /\ config.addr < start_address + quantity
  THEN CopyInWindow(out,
         pack_value_to_registers(Value(config), config.data_type),
         config.addr - start_address, quantity)
  ELSE CopyStraddling(out,
         pack_value_to_registers(Value(config), config.data_type),
         start_address - config.addr, quantity)

\* the entry lies in the window, or starts before it and reaches into it
Touches(config, start_address, quantity) ==
  \/ config.addr >= start_address /\ config.addr < start_address + quantity
  \/ /\ config.addr < start_address
     /\ config.addr + get_register_count(config.data_type) - 1 >= start_address

(* FC3/FC4, first loop: for addr, config in data_config[address_type]:     *)
(* k is the position in the dict, out is response_data.  The loop ends     *)
(* after the entry at position last: Len of the dict for a complete loop,  *)
(* fewer when the iteration is cut short by a RuntimeError (the dict       *)
(* changed size under the iterator).  AssembleEntry is the rest of one     *)
(* iteration once the entry has been refreshed in S.                       *)
RECURSIVE AssembleEntries(_, _, _, _, _, _, _, _, _)
RECURSIVE AssembleEntry(_, _, _, _, _, _, _, _, _)
AssembleEntry(S, address_type, k, last, start_address, quantity, out, t, rnd) ==
  AssembleEntries(S, address_type, k + 1, last, start_address, quantity,
                  Copied(out, S.dc[address_type][k], start_address, quantity),
                  t, rnd)

AssembleEntries(S, address_type, k, last, start_address, quantity, out, t, rnd) ==
  IF k > last \/ S.raised THEN [S |-> S, out |-> out]
  ELSE IF Touches(S.dc[address_type][k], start_address, quantity)
  THEN AssembleEntry(
         PutEntry(S, address_type,
                  RefreshIfDue(S.dc[address_type][k],
                               <<address_type, S.dc[address_type][k].addr, -1>>,
                               S, t, rnd)),
         address_type, k, last, start_address, quantity, out, t, rnd)
  ELSE AssembleEntries(S, address_type, k + 1, last, start_address, quantity,
                       out, t, rnd)

(* FC3/FC4, second loop: for i in range(quantity): apply the bit overlay   *)
(* of start+i.  todo is the set of overlay addresses of the window not yet *)
(* visited; AssembleOverlay stores the word g of the overlay at addr.      *)
RECURSIVE AssembleOverlays(_, _, _, _, _, _, _)
RECURSIVE AssembleOverlay(_, _, _, _, _, _, _, _)
AssembleOverlay(g, address_type, todo, addr, start_address, out, t, rnd) ==
  AssembleOverlays(g.S, address_type, todo \ {addr}, start_address,
                   [out EXCEPT ![addr - start_address + 1] = g.register_value],
                   t, rnd)

AssembleOverlays(S, address_type, todo, start_address, out, t, rnd) ==
  IF todo = {} \/ S.raised THEN [S |-> S, data |-> out]
  ELSE AssembleOverlay(
         generate_register_with_bits(S, address_type, SetMin(todo), t, rnd),
         address_type, todo, SetMin(todo), start_address, out, t, rnd)

Keys(d) == {d[i].addr : i \in 1..Len(d)}

\* variant: the requested quantity is served as it is
ClampQuantityOff(function_code, quantity) == quantity

ClampQuantity(function_code, quantity) ==
  IF quantity > max_quantity(function_code) THEN max_quantity(function_code)
  ELSE quantity

\* FC1/FC2: response_data of the refreshed store S
BitValues(S, address_type, start_address, quantity) ==
  [S |-> S,
   data |-> [i \in 1..quantity |->
      IF HasKey(S.dc[address_type], start_address + i - 1)
      THEN PyBool(Value(Get(S.dc[address_type], start_address + i - 1)))
      ELSE FALSE]]

\* FC3/FC4: the second loop over the result r1 of the first
OverlayPass(r1, address_type, start_address, quantity, t, rnd) ==
  AssembleOverlays(r1.S, address_type,
     Keys(r1.S.bc[address_type])
        \cap (start_address..(start_address + quantity - 1)),
     start_address, r1.out, t, rnd)

\* handle_read_request once the quantity has been clamped
ReadWindow(S, function_code, address_type, start_address, quantity, t, rnd) ==
  IF address_type = "none" THEN [S |-> S, data |-> <<>>]
  ELSE IF function_code \in {1, 2}
  THEN BitValues(
         RefreshBits(S, address_type,
            Keys(S.dc[address_type])
               \cap (start_address..(start_address + quantity - 1)), t, rnd),
         address_type, start_address, quantity)
  ELSE OverlayPass(
         AssembleEntries(S, address_type, 1, Len(S.dc[address_type]),
                         start_address, quantity, [i \in 1..quantity |-> 0],
                         t, rnd),
         address_type, start_address, quantity, t, rnd)

(* handle_read_request(request, start_address, quantity) at time t:        *)
(* [S, data], the store afterwards and response_data; S.raised tells that  *)
(* an exception left the call, and then nothing is returned.               *)
handle_read_request(S, function_code, start_address, quantity0, t, rnd) ==
  ReadWindow([S EXCEPT !.calls = <<>>], function_code,
             address_type_map(function_code), start_address,
             ClampQuantity(function_code, quantity0), t, rnd)

----------------------------------------------------------------------------
(* Codec                                                                   *)

\* struct.pack('>H', n)
PackH(n) == <<n \div 256, n % 256>>
\* struct.unpack('>H', two bytes)
UnpackH(b, i) == b[i] * 256 + b[i + 1]

\* function_code | 0x80
Or80(function_code) ==
  IF (function_code \div 128) % 2 = 1 THEN function_code ELSE function_code + 128

\* variant: the exception frame carries the request's function code as is
ExceptionFramePlain(transaction_id, unit_id, function_code, code) ==
  PackH(transaction_id) \o <<0, 0>> \o PackH(3)
     \o <<unit_id, function_code, code>>

\* struct.pack('>HHHBB', transaction_id, 0, 3, unit_id, function_code | 0x80)
\*   + struct.pack('>B', code)
ExceptionFrame(transaction_id, unit_id, function_code, code) ==
  PackH(transaction_id) \o <<0, 0>> \o PackH(3)
     \o <<unit_id, Or80(function_code), code>>

\* variant: the first bit of a byte is its most significant one
BitWeightMsb(bit) == Pow2(7 - bit)

\* 1 << bit
BitWeight(bit) == Pow2(bit)

\* the byte of the bits data[8*i .. 8*i+7] (0-based), bit k at position k
RECURSIVE BitsByte(_, _, _)
BitsByte(data, i, bit) ==
  IF bit > 7 THEN 0
  ELSE (IF 8 * i + bit < Len(data) /\ data[8 * i + bit + 1]
        THEN BitWeight(bit) ELSE 0)
       + BitsByte(data, i, bit + 1)

\* for val in register_data: response_body += struct.pack('>H', val)
WordsBytes(register_data) ==
  [j \in 1..(2 * Len(register_data)) |->
     IF j % 2 = 1 THEN register_data[(j + 1) \div 2] \div 256
     ELSE register_data[j \div 2] % 256]

\* variant: the length field counts the function code and the body only
create_modbus_response_short(transaction_id, unit_id, function_code, data) ==
  LET byte_count == IF function_code \in {1, 2} THEN (Len(data) + 7) \div 8
                    ELSE Len(data) * 2
      response_body ==
        IF function_code \in {1, 2}
        THEN <<byte_count>> \o [i \in 1..byte_count |-> BitsByte(data, i - 1, 0)]
        ELSE IF function_code \in {3, 4}
        THEN <<byte_count>> \o WordsBytes([k \in 1..Len(data) |-> And16(data[k])])
        ELSE <<1>>
      fc == IF function_code \in {1, 2, 3, 4} THEN function_code
            ELSE Or80(function_code)
      length == 1 + Len(response_body)
  IN IF function_code \in {1, 2, 3, 4} /\ byte_count > 255
     THEN ExceptionFrame(transaction_id, unit_id, function_code, 4)
     ELSE PackH(transaction_id) \o <<0, 0>> \o PackH(length) \o <<unit_id>>
            \o <<fc>> \o response_body

create_modbus_response(transaction_id, unit_id, function_code, data) ==
  LET byte_count == IF function_code \in {1, 2} THEN (Len(data) + 7) \div 8
                    ELSE Len(data) * 2
      response_body ==
        IF function_code \in {1, 2}
        THEN <<byte_count>> \o [i \in 1..byte_count |-> BitsByte(data, i - 1, 0)]
        ELSE IF function_code \in {3, 4}
        THEN <<byte_count>> \o WordsBytes([k \in 1..Len(data) |-> And16(data[k])])
        ELSE <<1>>
      fc == IF function_code \in {1, 2, 3, 4} THEN function_code
            ELSE Or80(function_code)
      length == 1 + 1 + Len(response_body)
  IN IF function_code \in {1, 2, 3, 4} /\ byte_count > 255
     THEN ExceptionFrame(transaction_id, unit_id, function_code, 4)
     ELSE PackH(transaction_id) \o <<0, 0>> \o PackH(length) \o <<unit_id>>
            \o <<fc>> \o response_body

NoRequest ==
  [transaction_id |-> -1, unit_id |-> -1, function_code |-> -1, data |-> <<>>]

parse_modbus_request(data) ==
  IF Len(data) < 8 THEN NoRequest
  ELSE LET length == UnpackH(data, 5)
       IN [transaction_id |-> UnpackH(data, 1),
           unit_id |-> data[7],
           function_code |-> data[8],
           data |-> PySlice(data, 8, 8 + length - 2)]

----------------------------------------------------------------------------
(* Request dispatch of the connection worker                               *)

ReadCodes == {1, 2, 3, 4}
WriteCodes == {5, 6, 15, 16}

\* variant: the acknowledgement is the 12-byte response of the protocol
\* (header, function code, address and value or quantity)
handle_write_ack(S, data) ==
  [S |-> S, response |-> SubSeq(data, 1, Min(12, Len(data)))]

\* variant: a write of a single register (FC6) is stored in the entry
handle_write_persist(S, data) ==
  [S |-> IF /\ Len(data) >= 12
            /\ data[8] = 6
            /\ HasKey(S.dc["holding_registers"], UnpackH(data, 9))
         THEN [S EXCEPT !.dc["holding_registers"] =
                 DictSet(@, [Get(@, UnpackH(data, 9)) EXCEPT
                               !.current_value = IntV(UnpackH(data, 11))])]
         ELSE S,
   response |-> data]

\* response = data: the received bytes are the acknowledgement
handle_write(S, data) == [S |-> S, response |-> data]

\* the except branch of the read: the exception 0x04 frame
ReadFault(S, request) ==
  [S |-> S, kind |-> "fault", read |-> <<>>,
   response |-> ExceptionFrame(request.transaction_id, request.unit_id,
                               request.function_code, 4)]

\* response = self.create_modbus_response(request, response_data)
ReadReply(r, request) ==
  IF r.S.raised THEN ReadFault(r.S, request)
  ELSE [S |-> r.S, kind |-> "read", read |-> r.data,
        response |-> create_modbus_response(request.transaction_id,
                        request.unit_id, request.function_code, r.data)]

\* the reply of the write branch
WriteReply(w) ==
  [S |-> w.S, kind |-> "write", read |-> <<>>, response |-> w.response]

(* The body of the worker loop after a successful parse: [S, response,     *)
(* kind, read], read being the list handle_read_request returned.          *)
handle_request(S, data, request, t, rnd) ==
  IF request.function_code \in ReadCodes
  THEN IF Len(request.data) >= 4
       THEN ReadReply(handle_read_request(S, request.function_code,
                         UnpackH(request.data, 1), UnpackH(request.data, 3),
                         t, rnd),
                      request)
       ELSE [S |-> S, kind |-> "short", read |-> <<>>,
             response |-> ExceptionFrame(request.transaction_id,
                            request.unit_id, request.function_code, 2)]
  ELSE IF request.function_code \in WriteCodes
  THEN WriteReply(handle_write(S, data))
  ELSE [S |-> S, kind |-> "illegal", read |-> <<>>,
        response |-> ExceptionFrame(request.transaction_id, request.unit_id,
                                    request.function_code, 1)]

\* the except branch: the store S2 the two threads leave, the calls of the
\* read so far, and the exception 0x04 frame
FaultReply(S2, calls, request) ==
  ReadFault([S2 EXCEPT !.calls = calls], request)

\* the insertion of the new key of cmd after the partial loop r1
Interleaved(r1, request, cmd, t, rnd2) ==
  FaultReply(set_data_config(r1.S, cmd.address_type, cmd.address, cmd.value,
                             cmd.interval, cmd.data_range, cmd.data_type,
                             t, rnd2),
             r1.S.calls, request)

(* The read of an FC3/FC4 request whose loop over the dict is cut short:   *)
(* after `done` entries another thread inserts the new key of command cmd  *)
(* into the dict, the iterator raises, and the except branch answers with  *)
(* exception 0x04.                                                         *)
handle_request_fault(S, request, done, cmd, t, rnd, rnd2) ==
  Interleaved(
    AssembleEntries([S EXCEPT !.calls = <<>>],
                    address_type_map(request.function_code), 1, done,
                    UnpackH(request.data, 1),
                    ClampQuantity(request.function_code,
                                  UnpackH(request.data, 3)),
                    [i \in 1..ClampQuantity(request.function_code,
                                            UnpackH(request.data, 3)) |-> 0],
                    t, rnd),
    request, cmd, t, rnd2)

----------------------------------------------------------------------------
(* State                                                                   *)

VARIABLES
  now,            \* time.time()
  running,        \* self.running
  data_config,    \* self.data_config: space -> dict of entries
  bit_config,     \* self.bit_config: space -> dict of overlays
  closure,        \* the cell `current` of every stateful callable
  configs,        \* the install calls the configuring thread will make
  applied,        \* how many of them it has made
  inbox,          \* per connection: frames the client still sends
  pc,             \* per connection: position of the worker
  data,           \* per connection: bytes of the last recv
  request,        \* per connection: the parsed request
  response,       \* per connection: the response to send
  sent,           \* per connection: the frames written to the socket
  parsed,         \* per connection: the requests parsed so far
  events,         \* per connection: observer callbacks delivered
  active_clients, \* self.active_clients: the connections it holds
  request_count,  \* self.active_clients[address]['request_count']
  local,          \* per worker: the refresh its read is in the middle of
  installing,     \* set_data_config has stored its entry and not yet seeded it
  original_data_config, \* self.original_data_config
  aliased,        \* self.data_config is self.original_data_config
  simulator,      \* the GUI's self.simulator: position of its start() thread
  is_running,     \* the GUI's self.is_running
  lifecycle,      \* the server starts, shutdowns and reset_data() calls so far
  reset_view,     \* the persistent view the last reset_data() left
  op              \* the store operation made by the last step

storeVars == <<data_config, bit_config, closure, original_data_config, aliased>>
guiVars == <<simulator, is_running, lifecycle, reset_view>>
cfgVars == <<configs, applied, installing>>
connVars == <<inbox, pc, data, request, response, sent, parsed, events,
              active_clients, request_count, local>>
vars == <<now, running, storeVars, cfgVars, connVars, guiVars, op>>

Conns == {1, 2}

\* a worker that is not in the middle of a refresh
NoRefresh == [key |-> <<>>, t |-> 0, seen |-> 0]

Store ==
  [dc |-> data_config, bc |-> bit_config, clo |-> closure, calls |-> <<>>,
   raised |-> FALSE]

NoOp ==
  [name |-> "none", function_code |-> 0, start_address |-> 0, quantity |-> 0,
   data |-> <<>>, calls |-> <<>>, c |-> 0, raised |-> FALSE]

ReadOp(function_code, start_address, quantity, rd, calls, c) ==
  [name |-> "read", function_code |-> function_code,
   start_address |-> start_address, quantity |-> quantity,
   data |-> rd, calls |-> calls, c |-> c, raised |-> FALSE]

StoreOp(name, calls, c) == [NoOp EXCEPT !.name = name, !.calls = calls, !.c = c]

\* the persistent view of the dicts dc: per space, the configured addresses
\* with their value, interval, range and declared type
View(dc) ==
  [sp \in Spaces |->
     { [addr |-> dc[sp][k].addr, value |-> dc[sp][k].value,
        interval |-> dc[sp][k].interval, data_range |-> dc[sp][k].data_range,
        data_type |-> dc[sp][k].data_type] : k \in 1..Len(dc[sp]) }]

\* no reset_data() since the snapshot was last taken
NoView ==
  [valid |-> FALSE, view |-> <<>>, applied |-> 0, second |-> FALSE,
   after |-> "none"]

\* callables that consult the random module
UsesRandom(value) ==
  value.kind \in {"boolean_func", "lambda_bool", "random_func",
                  "random_list_func", "random_increment_func", "randint2"}

\* the outcomes of the random draws of one step: all of them when some
\* callable of the configuration draws, one otherwise
StepDraws ==
  IF \E k \in 1..Len(configs) :
        \/ UsesRandom(configs[k].value)
        \/ \E j \in 1..Len(configs[k].bits) : UsesRandom(configs[k].bits[j].value)
  THEN Draws ELSE {0}

\* random_increment cells stay below the cap of the model
CellsBounded == \A id \in DOMAIN closure : closure[id] <= MaxAcc

----------------------------------------------------------------------------
(* Configurations and client traffic of the model                          *)

DataCmd(address_type, address, value, interval, data_range, data_type) ==
  [cmd |-> "data", address_type |-> address_type, address |-> address,
   value |-> value, interval |-> interval, data_range |-> data_range,
   data_type |-> data_type, bits |-> <<>>]

BitsCmd(address_type, address, bits) ==
  [cmd |-> "bits", address_type |-> address_type, address |-> address,
   value |-> Const(IntV(0)), interval |-> 1, data_range |-> <<>>,
   data_type |-> "bool", bits |-> bits]

BitCfg(bit, value, interval) ==
  [bit |-> bit, value |-> value, interval |-> interval, data_range |-> <<>>]

\* start values of the cells: ramp (id 1), random increment (id 2)
CellStart == <<1, 0>>

PeriodicFn(period) == Fn("periodic_boolean_func", period, 0, 0, <<>>, 0)
BooleanFn == Fn("boolean_func", 0, 0, 0, <<>>, 0)
RampFn == Fn("ramp_func", 1, 3, 0, <<>>, 1)
RandIncFn == Fn("random_increment_func", 1, 2, 0, <<>>, 2)
RandomFn == Fn("random_func", 0, 5, 0, <<>>, 0)
RandomListFn == Fn("random_list_func", 0, 0, 0, <<IntV(7), IntV(8), IntV(9)>>, 0)

OverlayA == <<BitCfg(0, PeriodicFn(2), 2), BitCfg(15, BooleanFn, 1)>>
OverlayB == <<BitCfg(3, BooleanFn, 2)>>

HR == "holding_registers"
IR == "input_registers"

StoreScripts ==
  { <<DataCmd(HR, 0, Const(IntV(1000)), 1, <<>>, "int16"),
      BitsCmd(HR, 0, OverlayA)>>,
    <<DataCmd(HR, 0, Const(IntV(-2)), 2, <<>>, "int32"),
      BitsCmd(HR, 0, OverlayB)>>,
    <<DataCmd(HR, 1, Const(FloatV(7)), 1, <<>>, "float32"),
      DataCmd(HR, 0, Const(StrV(<<72, 105, 49>>)), 2, <<>>, "string"),
      BitsCmd(HR, 1, OverlayB)>>,
    <<DataCmd(HR, 0, Const(FloatV(5)), 2, <<>>, "float64"),
      DataCmd(HR, 2, RampFn, 1, <<1, 2>>, "int16"),
      BitsCmd(HR, 1, OverlayA)>>,
    <<DataCmd("coils", 0, Const(BoolV(TRUE)), 1, <<>>, "bool"),
      DataCmd("coils", 2, BooleanFn, 2, <<0, 1>>, "bool"),
      DataCmd("discrete_inputs", 1, BooleanFn, 1, <<0, 1>>, "bool")>>,
    <<DataCmd(IR, 1, RandomFn, 2, <<0, 5>>, "uint16"),
      DataCmd(IR, 2, RandomListFn, 1, <<7, 8, 9>>, "int16"),
      BitsCmd(IR, 2, OverlayB)>>,
    <<DataCmd(IR, 0, RandIncFn, 1, <<0, 3>>, "uint32"),
      DataCmd(IR, 0, Const(IntV(70000)), 1, <<>>, "uint32")>> }

ReadStarts == 0..1
ReadQuantities == {0, 2, 126}

\* request frames
Frame(transaction_id, unit_id, function_code, payload) ==
  PackH(transaction_id) \o <<0, 0>> \o PackH(2 + Len(payload))
     \o <<unit_id, function_code>> \o payload

FrameLen(transaction_id, unit_id, function_code, length, payload) ==
  PackH(transaction_id) \o <<0, 0>> \o PackH(length)
     \o <<unit_id, function_code>> \o payload

----------------------------------------------------------------------------
(* Actions                                                                 *)

Idle ==
  /\ now = 0
  /\ running = FALSE
  /\ data_config = [sp \in Spaces |-> <<>>]
  /\ bit_config = [sp \in BitSpaces |-> <<>>]
  /\ closure = CellStart
  /\ original_data_config = <<>>
  /\ aliased = FALSE
  /\ simulator = "None"
  /\ is_running = FALSE
  /\ lifecycle = <<>>
  /\ reset_view = NoView
  /\ applied = 0
  /\ pc = [c \in Conns |-> "idle"]
  /\ data = [c \in Conns |-> <<>>]
  /\ request = [c \in Conns |-> NoRequest]
  /\ response = [c \in Conns |-> <<>>]
  /\ sent = [c \in Conns |-> <<>>]
  /\ parsed = [c \in Conns |-> <<>>]
  /\ events = [c \in Conns |-> <<>>]
  /\ active_clients = [c \in Conns |-> FALSE]
  /\ request_count = [c \in Conns |-> -1]
  /\ local = [c \in Conns |-> NoRefresh]
  /\ installing = FALSE
  /\ op = NoOp

\* the store S becomes the state of the simulator; the snapshot follows
\* data_config while the two names denote one object
SetStore(S) ==
  /\ data_config' = S.dc
  /\ bit_config' = S.bc
  /\ closure' = S.clo
  /\ original_data_config' = IF aliased THEN S.dc ELSE original_data_config
  /\ aliased' = aliased

ApplyCmd(S, cmd, t, rnd) ==
  IF cmd.cmd = "data"
  THEN set_data_config(S, cmd.address_type, cmd.address, cmd.value,
                       cmd.interval, cmd.data_range, cmd.data_type, t, rnd)
  ELSE set_bit_config(S, cmd.address_type, cmd.address, cmd.bits, t, rnd)

\* the passage of time
Tick ==
  /\ now < MaxTime
  /\ now' = now + 1
  /\ op' = NoOp
  /\ UNCHANGED <<guiVars, running, storeVars, cfgVars, connVars>>

\* the effect of a configuration call that leaves the store S
Configured(S, cmd) ==
  /\ SetStore(S)
  /\ op' = [StoreOp(IF cmd.cmd = "data" THEN "set_data_config"
                    ELSE "set_bit_config", S.calls, 0)
              EXCEPT !.raised = S.raised]

\* the configuring thread makes its next set_data_config / set_bit_config call
Configure ==
  /\ applied < Len(configs)
  /\ CellsBounded
  /\ \E rnd \in StepDraws :
       Configured(ApplyCmd(Store, configs[applied + 1], now, rnd),
                  configs[applied + 1])
  /\ applied' = applied + 1
  /\ UNCHANGED <<guiVars, now, running, configs, installing, connVars>>

\* the effect of a read that returns r = [S, data]
ReadDone(r, function_code, start_address, quantity) ==
  /\ SetStore(r.S)
  /\ op' = IF r.S.raised
            THEN [StoreOp("fault", r.S.calls, 0) EXCEPT !.raised = TRUE]
            ELSE ReadOp(function_code, start_address, quantity, r.data,
                        r.S.calls, 0)

\* a call of handle_read_request
Read ==
  /\ CellsBounded
  /\ \E function_code \in ReadCodes, start_address \in ReadStarts,
        quantity \in ReadQuantities, rnd \in StepDraws :
       ReadDone(handle_read_request(Store, function_code, start_address,
                                    quantity, now, rnd),
                function_code, start_address, quantity)
  /\ UNCHANGED <<guiVars, now, running, cfgVars, connVars>>

\* start(): the listening socket exists and self.running = True
StartServer ==
  /\ ~running
  /\ \A c \in Conns : pc[c] = "idle"
  /\ running' = TRUE
  /\ op' = NoOp
  /\ UNCHANGED <<guiVars, now, storeVars, cfgVars, connVars>>

\* stop(): self.running = False
StopServer ==
  /\ running
  /\ running' = FALSE
  /\ op' = NoOp
  /\ UNCHANGED <<guiVars, now, storeVars, cfgVars, connVars>>

\* accept() returns the connection and its worker thread starts
Accept(c) ==
  /\ running
  /\ pc[c] = "idle"
  /\ events' = [events EXCEPT ![c] = Append(@, "client_connect")]
  /\ active_clients' = [active_clients EXCEPT ![c] = TRUE]
  /\ request_count' = [request_count EXCEPT ![c] = 0]
  /\ pc' = [pc EXCEPT ![c] = "reading"]
  /\ op' = NoOp
  /\ UNCHANGED <<guiVars, local, now, running, storeVars, cfgVars, inbox, data, request,
                 response, sent, parsed>>

\* the finally block of the worker
CloseConn(c) ==
  /\ pc' = [pc EXCEPT ![c] = "closed"]
  /\ events' = [events EXCEPT ![c] = Append(@, "client_disconnect")]
  /\ active_clients' = [active_clients EXCEPT ![c] = FALSE]
  /\ request_count' = [request_count EXCEPT ![c] = -1]

\* while self.running:
LoopHead(c) ==
  /\ pc[c] = "reading"
  /\ IF running
     THEN /\ pc' = [pc EXCEPT ![c] = "receiving"]
          /\ UNCHANGED <<events, active_clients, request_count>>
     ELSE CloseConn(c)
  /\ op' = NoOp
  /\ UNCHANGED <<guiVars, local, now, running, storeVars, cfgVars, inbox, data, request,
                 response, sent, parsed>>

\* data = client_socket.recv(256) returns the next frame of the client
Recv(c) ==
  /\ pc[c] = "receiving"
  /\ inbox[c] # <<>>
  /\ data' = [data EXCEPT ![c] = Head(inbox[c])]
  /\ inbox' = [inbox EXCEPT ![c] = Tail(@)]
  /\ events' = [events EXCEPT ![c] = Append(@, "request_received")]
  /\ pc' = [pc EXCEPT ![c] = "parsing"]
  /\ op' = NoOp
  /\ UNCHANGED <<guiVars, local, now, running, storeVars, cfgVars, request, response, sent,
                 parsed, active_clients, request_count>>

\* recv returns b'' (the peer closed) or raises (socket error)
RecvEnd(c) ==
  /\ pc[c] = "receiving"
  /\ CloseConn(c)
  /\ op' = NoOp
  /\ UNCHANGED <<guiVars, local, now, running, storeVars, cfgVars, inbox, data, request,
                 response, sent, parsed>>

\* variant: a buffer that cannot be parsed ends the worker loop (break)
ParseOrClose(c) ==
  /\ pc[c] = "parsing"
  /\ LET req == parse_modbus_request(data[c])
     IN /\ request' = [request EXCEPT ![c] = req]
        /\ IF req = NoRequest
           THEN /\ CloseConn(c)
                /\ UNCHANGED parsed
           ELSE /\ pc' = [pc EXCEPT ![c] = "dispatching"]
                /\ parsed' = [parsed EXCEPT ![c] = Append(@, req)]
                /\ UNCHANGED <<events, active_clients, request_count>>
  /\ op' = NoOp
  /\ UNCHANGED <<guiVars, local, now, running, storeVars, cfgVars, inbox, data,
                 response, sent>>

\* request = self.parse_modbus_request(data); if not request: continue
Parse(c) ==
  /\ pc[c] = "parsing"
  /\ LET req == parse_modbus_request(data[c])
     IN /\ request' = [request EXCEPT ![c] = req]
        /\ IF req = NoRequest
           THEN /\ pc' = [pc EXCEPT ![c] = "reading"]
                /\ UNCHANGED parsed
           ELSE /\ pc' = [pc EXCEPT ![c] = "dispatching"]
                /\ parsed' = [parsed EXCEPT ![c] = Append(@, req)]
  /\ op' = NoOp
  /\ UNCHANGED <<guiVars, local, now, running, storeVars, cfgVars, inbox, data, response, sent,
                 events, active_clients, request_count>>

DispatchOp(r, req, c) ==
  IF r.kind = "read"
  THEN ReadOp(req.function_code, UnpackH(req.data, 1), UnpackH(req.data, 3),
              r.read, r.S.calls, c)
  ELSE StoreOp(r.kind, r.S.calls, c)

\* variant: the workers share one response buffer
DispatchedShared(r, c) ==
  /\ SetStore(r.S)
  /\ response' = [d \in Conns |-> r.response]
  /\ op' = DispatchOp(r, request[c], c)

\* the effect of a dispatch with reply r on connection c
Dispatched(r, c) ==
  /\ SetStore(r.S)
  /\ response' = [response EXCEPT ![c] = r.response]
  /\ op' = DispatchOp(r, request[c], c)

\* the dispatch on the function code, up to the response
Dispatch(c) ==
  /\ pc[c] = "dispatching"
  /\ CellsBounded
  /\ \E rnd \in StepDraws :
       Dispatched(handle_request(Store, data[c], request[c], now, rnd), c)
  /\ pc' = [pc EXCEPT ![c] = "writing"]
  /\ UNCHANGED <<guiVars, local, now, running, cfgVars, inbox, data, request, sent, parsed,
                 events, active_clients, request_count>>

(* The dispatch of an FC3/FC4 read during which the configuring thread     *)
(* inserts a new address into the dict the read iterates over.             *)
DispatchFault(c) ==
  /\ pc[c] = "dispatching"
  /\ CellsBounded
  /\ request[c].function_code \in {3, 4}
  /\ Len(request[c].data) >= 4
  /\ applied < Len(configs)
  /\ configs[applied + 1].cmd = "data"
  /\ configs[applied + 1].address_type
        = address_type_map(request[c].function_code)
  /\ ~HasKey(data_config[configs[applied + 1].address_type],
             configs[applied + 1].address)
  /\ \E done \in 0..Len(data_config[configs[applied + 1].address_type]),
        rnd \in StepDraws, rnd2 \in StepDraws :
       Dispatched(handle_request_fault(Store, request[c], done,
                                       configs[applied + 1], now, rnd, rnd2), c)
  /\ applied' = applied + 1
  /\ pc' = [pc EXCEPT ![c] = "writing"]
  /\ UNCHANGED <<guiVars, local, now, running, configs, installing, inbox, data, request, sent, parsed,
                 events, active_clients, request_count>>

\* sent = client_socket.send(response)
Send(c) ==
  /\ pc[c] = "writing"
  /\ sent' = [sent EXCEPT ![c] = Append(@, response[c])]
  /\ pc' = [pc EXCEPT ![c] = "reading"]
  /\ op' = NoOp
  /\ UNCHANGED <<guiVars, local, now, running, storeVars, cfgVars, inbox, data, request,
                 response, parsed, events, active_clients, request_count>>

\* send raises (socket error)
SendFail(c) ==
  /\ pc[c] = "writing"
  /\ CloseConn(c)
  /\ op' = NoOp
  /\ UNCHANGED <<guiVars, local, now, running, storeVars, cfgVars, inbox, data, request,
                 response, sent, parsed>>

Worker(c) ==
  \/ LoopHead(c)
  \/ Recv(c)
  \/ RecvEnd(c)
  \/ Parse(c)
  \/ Dispatch(c)
  \/ DispatchFault(c)
  \/ Send(c)
  \/ SendFail(c)

\* self.original_data_config = copy.deepcopy(self.data_config)
save_original_config ==
  /\ original_data_config' = data_config
  /\ aliased' = FALSE
  /\ reset_view' = NoView
  /\ op' = StoreOp("save_original_config", <<>>, 0)
  /\ UNCHANGED <<now, running, data_config, bit_config, closure, cfgVars,
                 connVars, simulator, is_running, lifecycle>>

\* the effect of a reset_data() that returns r = [S, aliased]
WasReset(r) ==
  /\ data_config' = r.S.dc
  /\ bit_config' = r.S.bc
  /\ closure' = r.S.clo
  /\ original_data_config' = IF r.aliased THEN r.S.dc ELSE original_data_config
  /\ aliased' = r.aliased
  /\ reset_view' = [valid |-> TRUE, view |-> View(r.S.dc), applied |-> applied,
                    second |-> reset_view.valid /\ reset_view.applied = applied,
                    after |-> op.name]

\* a call of reset_data() by the owner of the simulator
ResetData ==
  /\ CellsBounded
  /\ \E rnd \in StepDraws :
       WasReset(reset_data(Store, original_data_config, aliased, now, rnd))
  /\ op' = StoreOp("reset_data", <<>>, 0)
  /\ UNCHANGED <<now, running, cfgVars, connVars, simulator, is_running,
                 lifecycle>>

\* the effect of start_server once apply_config_to_simulator has left the
\* new simulator with the store S: the server thread is started unless a
\* configuration call raised
Started(S) ==
  /\ data_config' = S.dc
  /\ bit_config' = S.bc
  /\ closure' = S.clo
  /\ simulator' = IF S.raised THEN "new" ELSE "starting"
  /\ is_running' = ~S.raised
  /\ lifecycle' = IF S.raised THEN lifecycle ELSE Append(lifecycle, "start")
  /\ op' = [StoreOp("start_server", <<>>, 0) EXCEPT !.raised = S.raised]

(* The GUI's start_server, enabled while the start button is: a new        *)
(* simulator is created, save_original_config() copies its data_config,    *)
(* which is still the four empty dicts, apply_config_to_simulator installs *)
(* the configuration, and the thread of start() is started.                *)
start_server ==
  /\ ~is_running
  /\ Cardinality({i \in 1..Len(lifecycle) : lifecycle[i] = "start"}) < MaxStarts
  /\ CellsBounded
  /\ \E rnd \in StepDraws :
       Started(apply_config_to_simulator(closure, configs, now, rnd))
  /\ original_data_config' = [sp \in Spaces |-> <<>>]
  /\ aliased' = FALSE
  /\ running' = FALSE
  /\ reset_view' = NoView
  /\ UNCHANGED <<now, cfgVars, connVars>>

\* start() of the thread: the socket is bound and self.running = True
Serve ==
  /\ simulator = "starting"
  /\ simulator' = "serving"
  /\ running' = TRUE
  /\ op' = NoOp
  /\ UNCHANGED <<now, storeVars, cfgVars, connVars, is_running, lifecycle,
                 reset_view>>

\* start() of the thread: the socket set-up raises; finally: self.stop()
ServeFail ==
  /\ simulator = "starting"
  /\ simulator' = "stopped"
  /\ running' = FALSE
  /\ lifecycle' = Append(lifecycle, "stop")
  /\ op' = NoOp
  /\ UNCHANGED <<now, storeVars, cfgVars, connVars, is_running, reset_view>>

\* the accept loop finds self.running false and ends; finally: self.stop()
ServeEnd ==
  /\ simulator = "serving"
  /\ ~running
  /\ simulator' = "stopped"
  /\ lifecycle' = Append(lifecycle, "stop")
  /\ op' = NoOp
  /\ UNCHANGED <<now, running, storeVars, cfgVars, connVars, is_running,
                 reset_view>>

\* variant: the GUI stops the simulator and does not reset its data
stop_server_only ==
  /\ is_running
  /\ simulator # "None"
  /\ running' = FALSE
  /\ is_running' = FALSE
  /\ lifecycle' = lifecycle \o <<"stop">>
  /\ op' = StoreOp("stop_server", <<>>, 0)
  /\ UNCHANGED <<now, storeVars, cfgVars, connVars, simulator, reset_view>>

(* The GUI's stop_server, enabled while the stop button is:                *)
(* self.simulator.stop(); self.simulator.reset_data(); is_running = False  *)
stop_server ==
  /\ is_running
  /\ simulator # "None"
  /\ CellsBounded
  /\ running' = FALSE
  /\ \E rnd \in StepDraws :
       WasReset(reset_data(Store, original_data_config, aliased, now, rnd))
  /\ is_running' = FALSE
  /\ lifecycle' = lifecycle \o <<"stop", "reset_data">>
  /\ op' = StoreOp("stop_server", <<>>, 0)
  /\ UNCHANGED <<now, cfgVars, connVars, simulator>>

\* a read request served by a worker of the simulator
ServedRead ==
  /\ simulator = "serving"
  /\ Read

----------------------------------------------------------------------------
(* The store under configuration and reads                                 *)

InitStore ==
  /\ Idle
  /\ configs \in StoreScripts
  /\ inbox = [c \in Conns |-> <<>>]

NextStore == Tick \/ Configure \/ Read

SpecStore == InitStore /\ [][NextStore]_vars

----------------------------------------------------------------------------
(* The simulator under snapshots and resets made by its owner              *)

ResetScripts ==
  { <<DataCmd(HR, 0, Const(IntV(1000)), 1, <<>>, "int16"),
      DataCmd(HR, 1, RampFn, 1, <<1, 2>>, "int16")>>,
    <<DataCmd("coils", 0, BooleanFn, 2, <<0, 1>>, "bool")>> }

InitReset ==
  /\ Idle
  /\ configs \in ResetScripts
  /\ inbox = [c \in Conns |-> <<>>]

NextReset == Tick \/ Configure \/ Read \/ save_original_config \/ ResetData

SpecReset == InitReset /\ [][NextReset]_vars

----------------------------------------------------------------------------
(* The store under configuration calls of every kind, and reads            *)

InstallScripts ==
  { <<DataCmd(HR, 0, Const(IntV(1000)), 1, <<>>, "int16"),
      DataCmd(HR, 1, RampFn, 1, <<1, 2>>, "int16"),
      DataCmd(HR, 0, RandomFn, 2, <<0, 5>>, "uint16")>>,
    <<DataCmd(HR, 0, Const(IntV(0)), 1, <<>>, "uint16"),
      BitsCmd(HR, 0, OverlayA),
      BitsCmd(HR, 0, OverlayB)>>,
    <<DataCmd(HR, 0, Const(IntV(5)), 1, <<>>, "uint16"),
      DataCmd("registers", 0, Const(IntV(6)), 1, <<>>, "uint16"),
      BitsCmd("coils", 0, OverlayB)>>,
    <<DataCmd(IR, 0, Const(IntV(0)), 1, <<>>, "uint16"),
      BitsCmd(IR, 0, <<BitCfg(3, BooleanFn, 1), BitCfg(16, BooleanFn, 1)>>)>>,
    <<DataCmd(HR, 0, Const(IntV(7)), 0, <<>>, "uint16"),
      BitsCmd(HR, 0, <<BitCfg(2, BooleanFn, -1)>>)>>,
    <<DataCmd(HR, 1, Const(IntV(5)), 1, <<>>, "uint16"),
      DataCmd(HR, 0, Const(InfV), 1, <<>>, "int16")>> }

InitInstall ==
  /\ Idle
  /\ configs \in InstallScripts
  /\ inbox = [c \in Conns |-> <<>>]

NextInstall == Tick \/ Configure \/ Read

SpecInstall == InitInstall /\ [][NextInstall]_vars

----------------------------------------------------------------------------
(* Reads of strings and of multi-register entries                          *)

WidthScripts ==
  { <<DataCmd(HR, 0, Const(StrV(<<72, 105, 49>>)), 1, <<>>, "string")>>,
    <<DataCmd(HR, 0, Const(IntV(-2)), 1, <<>>, "int32"),
      BitsCmd(HR, 1, OverlayB)>>,
    <<DataCmd(IR, 0, Const(IntV(70000)), 2, <<>>, "uint32"),
      DataCmd(IR, 2, Const(FloatV(5)), 1, <<>>, "float64")>> }

InitWidth ==
  /\ Idle
  /\ configs \in WidthScripts
  /\ inbox = [c \in Conns |-> <<>>]

NextWidth == Tick \/ Configure \/ Read

SpecWidth == InitWidth /\ [][NextWidth]_vars

----------------------------------------------------------------------------
(* Reads of entries that overlap                                           *)

\* in each script two entries of one space have a register in common; the
\* entry inserted later comes later in the iteration of the dict
OverlapScripts ==
  { <<DataCmd(HR, 0, Const(IntV(-2)), 1, <<>>, "int32"),
      DataCmd(HR, 1, Const(IntV(9)), 1, <<>>, "uint16")>>,
    <<DataCmd(HR, 2, Const(IntV(7)), 1, <<>>, "int16"),
      DataCmd(HR, 1, Const(IntV(70000)), 1, <<>>, "uint32")>>,
    <<DataCmd(IR, 1, Const(IntV(7)), 1, <<>>, "int16"),
      DataCmd(IR, 0, Const(StrV(<<72, 105, 49>>)), 1, <<>>, "string")>>,
    <<DataCmd(IR, 0, Const(FloatV(5)), 1, <<>>, "float64"),
      DataCmd(IR, 2, RampFn, 1, <<>>, "int32")>> }

InitOverlap ==
  /\ Idle
  /\ configs \in OverlapScripts
  /\ inbox = [c \in Conns |-> <<>>]

NextOverlap == Tick \/ Configure \/ Read

SpecOverlap == InitOverlap /\ [][NextOverlap]_vars

----------------------------------------------------------------------------
(* Reads of cumulative counters                                            *)

\* create_random_increment_function(start=0, min_step=1, max_step=2,
\* max_value=4): the field c holds max_value, which the closure captures
RandIncCapFn == Fn("random_increment_func", 1, 2, 4, <<>>, 2)

CounterScripts ==
  { <<DataCmd(IR, 0, RandIncCapFn, 1, <<0, 3>>, "uint16")>>,
    <<DataCmd(HR, 0, RandIncCapFn, 1, <<>>, "int32"),
      DataCmd(HR, 2, RampFn, 2, <<1, 2>>, "int16")>> }

InitCounter ==
  /\ Idle
  /\ configs \in CounterScripts
  /\ inbox = [c \in Conns |-> <<>>]

NextCounter == Tick \/ Configure \/ Read

SpecCounter == InitCounter /\ [][NextCounter]_vars

----------------------------------------------------------------------------
(* Reads of periodic switches                                              *)

Periods == 1..4

\* a periodic switch at coil 0, or a periodic bit of the overlay of holding
\* register 0, whose period is its interval
PeriodicScripts ==
  { <<DataCmd("coils", 0, PeriodicFn(p), 1, <<>>, "bool")>> : p \in Periods }
  \cup { <<BitsCmd(HR, 0, <<BitCfg(0, PeriodicFn(p), p)>>)>> : p \in Periods }

InitPeriodic ==
  /\ Idle
  /\ configs \in PeriodicScripts
  /\ inbox = [c \in Conns |-> <<>>]

NextPeriodic == Tick \/ Configure \/ Read

SpecPeriodic == InitPeriodic /\ [][NextPeriodic]_vars

----------------------------------------------------------------------------
(* Reads of integers of either sign over the wire                          *)

\* the integers that are configured as fixed values
PackInts == {-70000, -32768, -2, 0, 1000, 65535, 65536, 70000, 2147483647}

\* one fixed integer of an integer type at register 0 of a register space;
\* a uint32 entry is given a value the conversion leaves below 2^31
PackScripts ==
  { <<DataCmd(x[1], 0, Const(IntV(x[3])), 1, <<>>, x[2])>> :
      x \in { y \in BitSpaces \X IntTypes \X PackInts :
                y[2] = "uint32" => y[3] >= 0 } }

\* the client reads one holding register and then two input registers
InitPack ==
  /\ Idle
  /\ configs \in PackScripts
  /\ inbox = [c \in Conns |-> IF c = 1
                              THEN <<Frame(1, 1, 3, <<0, 0, 0, 1>>),
                                     Frame(2, 1, 4, <<0, 0, 0, 2>>)>>
                              ELSE <<>>]

NextPack ==
  \/ Configure
  \/ StartServer
  \/ Accept(1)
  \/ Worker(1)

SpecPack == InitPack /\ [][NextPack]_vars

----------------------------------------------------------------------------
(* The operator disconnecting a client while its worker runs               *)

\* the operator has closed the socket of connection c under its worker:
\* disconnect_client is the only code that removes the entry of a worker
\* that has not passed its finally block
Severed(c) == pc[c] \notin {"idle", "closed"} /\ ~active_clients[c]

\* disconnect_client for the selected client: the socket in its entry is
\* closed and the entry is deleted
disconnect_client(c) ==
  /\ active_clients[c]
  /\ active_clients' = [active_clients EXCEPT ![c] = FALSE]
  /\ request_count' = [request_count EXCEPT ![c] = -1]
  /\ op' = StoreOp("disconnect_client", <<>>, c)
  /\ UNCHANGED <<guiVars, local, now, running, storeVars, cfgVars, inbox,
                 pc, data, request, response, sent, parsed, events>>

\* the finally block up to its test: the socket is closed, the observer is
\* told, and `address in self.active_clients` is evaluated
Finally(c) ==
  /\ events' = [events EXCEPT ![c] = Append(@, "client_disconnect")]
  /\ pc' = [pc EXCEPT ![c] = IF active_clients[c] THEN "removing" ELSE "closed"]
  /\ op' = NoOp
  /\ UNCHANGED <<guiVars, local, now, running, storeVars, cfgVars, inbox,
                 data, request, response, sent, parsed, active_clients,
                 request_count>>

\* the worker leaves its loop by itself: the while test fails, or recv or
\* send is called on the socket the operator has closed and raises (a recv
\* that was waiting when the operator closed the socket goes on waiting)
LeaveLoop(c) ==
  /\ \/ pc[c] = "reading" /\ (~running \/ Severed(c))
     \/ pc[c] = "writing" /\ Severed(c)
  /\ Finally(c)

\* the peer ends the connection: recv returns b'' or raises, send raises
PeerGone(c) ==
  /\ \/ pc[c] = "receiving"
     \/ pc[c] = "writing" /\ ~Severed(c)
  /\ Finally(c)

\* del self.active_clients[address] in the finally block, after the test
\* found the entry: KeyError when the entry is no longer there
Remove(c) ==
  /\ pc[c] = "removing"
  /\ pc' = [pc EXCEPT ![c] = "closed"]
  /\ active_clients' = [active_clients EXCEPT ![c] = FALSE]
  /\ request_count' = [request_count EXCEPT ![c] = -1]
  /\ op' = [StoreOp("remove", <<>>, c) EXCEPT !.raised = ~active_clients[c]]
  /\ UNCHANGED <<guiVars, local, now, running, storeVars, cfgVars, inbox,
                 data, request, response, sent, parsed, events>>

\* a step of the worker of connection c that needs nothing from its peer,
\* the finally block in two steps
OperatorStep(c) ==
  \/ running /\ ~Severed(c) /\ LoopHead(c)
  \/ Recv(c)
  \/ Parse(c)
  \/ Dispatch(c)
  \/ ~Severed(c) /\ Send(c)
  \/ LeaveLoop(c)
  \/ Remove(c)

OperatorClients ==
  [c \in Conns |-> IF c = 1
                   THEN <<Frame(1, 1, 3, <<0, 0, 0, 1>>), <<1, 2>>>>
                   ELSE <<Frame(2, 1, 1, <<0, 0, 0, 1>>)>>]

InitOperator ==
  /\ Idle
  /\ configs = <<>>
  /\ inbox = OperatorClients

NextOperator ==
  \/ StartServer
  \/ StopServer
  \/ \E c \in Conns :
       Accept(c) \/ OperatorStep(c) \/ PeerGone(c) \/ disconnect_client(c)

SpecOperator == InitOperator /\ [][NextOperator]_vars

(* Every worker thread that can take a step of its own takes it in the     *)
(* end; the peer and the operator are not forced.                          *)
SpecOperatorLive ==
  InitOperator /\ [][NextOperator]_vars
    /\ \A c \in Conns : WF_vars(OperatorStep(c))

----------------------------------------------------------------------------
(* The GUI starting and stopping the server                                *)

GuiScripts ==
  { <<DataCmd(HR, 0, Const(IntV(1000)), 1, <<>>, "int16"),
      DataCmd(HR, 1, RampFn, 1, <<1, 2>>, "int16"),
      BitsCmd(HR, 0, OverlayB)>>,
    <<DataCmd("coils", 0, BooleanFn, 1, <<0, 1>>, "bool"),
      DataCmd(IR, 0, Const(FloatV(7)), 2, <<>>, "float32")>>,
    <<DataCmd(HR, 0, Const(IntV(5)), 1, <<>>, "uint16"),
      DataCmd(HR, 2, Const(InfV), 1, <<>>, "int16")>> }

InitGui ==
  /\ Idle
  /\ configs \in GuiScripts
  /\ inbox = [c \in Conns |-> <<>>]

NextGui ==
  \/ Tick
  \/ start_server
  \/ Serve
  \/ ServeFail
  \/ ServeEnd
  \/ stop_server
  \/ ServedRead

SpecGui == InitGui /\ [][NextGui]_vars

----------------------------------------------------------------------------
(* The server with two client connections                                  *)

ServerScripts ==
  { <<DataCmd(HR, 0, Const(IntV(1000)), 1, <<>>, "int16"),
      DataCmd(HR, 1, BooleanFn, 1, <<0, 1>>, "uint16")>>,
    <<DataCmd("coils", 0, Const(BoolV(TRUE)), 1, <<>>, "bool"),
      DataCmd(IR, 0, Const(IntV(7)), 2, <<>>, "int16"),
      BitsCmd(IR, 0, OverlayB)>> }

ReadFrame(transaction_id, unit_id, function_code, start_address, quantity) ==
  Frame(transaction_id, unit_id, function_code,
        PackH(start_address) \o PackH(quantity))

\* what each client sends, frame by frame; the transaction ids of the two
\* clients are disjoint
ClientScripts ==
  { [c \in Conns |-> IF c = 1 THEN a ELSE b] :
      a \in { <<ReadFrame(1, 1, 3, 0, 2), Frame(2, 1, 6, <<0, 0, 0, 5>>)>>,
              <<Frame(5, 1, 99, <<>>), <<0, 6, 0, 0, 0, 1, 1>>,
                ReadFrame(6, 1, 1, 0, 9)>> },
      b \in { <<ReadFrame(3, 2, 4, 0, 1)>>,
              <<Frame(4, 2, 16, <<0, 1, 0, 1, 2, 0, 9>>),
                Frame(7, 2, 3, <<0, 0>>)>> } }

Init ==
  /\ Idle
  /\ configs \in ServerScripts
  /\ inbox \in ClientScripts

Next ==
  \/ Tick
  \/ Configure
  \/ StartServer
  \/ StopServer
  \/ \E c \in Conns : Accept(c) \/ Worker(c)

Spec == Init /\ [][Next]_vars

----------------------------------------------------------------------------
(* The server under a fair scheduler                                       *)

\* the first client sends one request and then nothing; the second sends
\* two
LiveClients ==
  { [c \in Conns |-> IF c = 1 THEN <<ReadFrame(1, 1, 3, 0, 2)>>
                     ELSE <<Frame(4, 2, 16, <<0, 1, 0, 1, 2, 0, 9>>),
                            ReadFrame(3, 2, 4, 0, 1)>>] }

InitLive ==
  /\ Idle
  /\ configs = <<DataCmd(HR, 0, Const(IntV(1000)), 1, <<>>, "int16")>>
  /\ inbox \in LiveClients

\* a step of the worker thread of connection c that needs nothing from
\* its peer
Step(c) == LoopHead(c) \/ Recv(c) \/ Parse(c) \/ Dispatch(c) \/ Send(c)

NextLive ==
  \/ Configure
  \/ StartServer
  \/ StopServer
  \/ \E c \in Conns : Accept(c) \/ Step(c) \/ RecvEnd(c) \/ SendFail(c)

(* Every worker thread that can take a step of its own takes it in the     *)
(* end.  What the peer does (closing, resetting the connection) and what   *)
(* the operator does are not forced.                                       *)
SpecLive == InitLive /\ [][NextLive]_vars /\ \A c \in Conns : WF_vars(Step(c))

----------------------------------------------------------------------------
(* The threads without synchronisation                                     *)
(*                                                                         *)
(* The worker threads and the configuring thread share data_config and the *)
(* cells of the callables and take no lock.  The refresh of an entry by a  *)
(* read is three steps of the worker: the test of last_update, the         *)
(* assignment of last_update followed by the load of the cell by the       *)
(* callable, and the store of the cell followed by the assignment of       *)
(* current_value.  set_data_config is two steps: the insertion of the new  *)
(* dict, and the assignments of last_update and current_value.             *)

\* the window of the FC3/FC4 request of connection c
RaceSpace(c) == address_type_map(request[c].function_code)
RaceStart(c) == UnpackH(request[c].data, 1)
RaceQuantity(c) ==
  ClampQuantity(request[c].function_code, UnpackH(request[c].data, 3))

\* the entry at position k is the only one the window of c touches
OnlyEntry(c, k) ==
  \A j \in 1..Len(data_config[RaceSpace(c)]) :
     Touches(data_config[RaceSpace(c)][j], RaceStart(c), RaceQuantity(c))
        <=> j = k

\* if current_time - config['last_update'] >= config['interval']:
RefreshCheck(c) ==
  /\ pc[c] = "dispatching"
  /\ request[c].function_code \in {3, 4}
  /\ Len(request[c].data) >= 4
  /\ Keys(bit_config[RaceSpace(c)])
        \cap (RaceStart(c)..(RaceStart(c) + RaceQuantity(c) - 1)) = {}
  /\ \E k \in 1..Len(data_config[RaceSpace(c)]) :
       /\ OnlyEntry(c, k)
       /\ IsDue(data_config[RaceSpace(c)][k], now)
       /\ local' = [local EXCEPT ![c] =
                      [key |-> <<RaceSpace(c),
                                 data_config[RaceSpace(c)][k].addr, -1>>,
                       t |-> now, seen |-> 0]]
  /\ pc' = [pc EXCEPT ![c] = "checked"]
  /\ op' = NoOp
  /\ UNCHANGED <<guiVars, now, running, storeVars, cfgVars, inbox, data,
                 request, response, sent, parsed, events, active_clients,
                 request_count>>

\* the cell the callable value works on, 0 when it has none
CellOf(value, clo) == IF is_random_increment(value) THEN clo[value.id] ELSE 0

\* config['last_update'] = current_time, in the store S
Stamped(S, key, t) ==
  [S EXCEPT !.dc[key[1]] =
     DictSet(@, [Get(@, key[2]) EXCEPT !.last_update = t])]

\* config['last_update'] = current_time; the call of generate_data begins
\* and the callable loads current[0]
RefreshCall(c) ==
  /\ pc[c] = "checked"
  /\ SetStore(Stamped(Store, local[c].key, local[c].t))
  /\ local' = [local EXCEPT ![c].seen =
                 CellOf(Get(data_config[local[c].key[1]],
                            local[c].key[2]).value, closure)]
  /\ pc' = [pc EXCEPT ![c] = "calling"]
  /\ op' = NoOp
  /\ UNCHANGED <<guiVars, now, running, cfgVars, inbox, data, request,
                 response, sent, parsed, events, active_clients,
                 request_count>>

\* the cells as the callable sees them when it has loaded seen
Loaded(value, seen, clo) ==
  IF is_random_increment(value) THEN [clo EXCEPT ![value.id] = seen] ELSE clo

\* config['current_value'] = the result g of generate_data, in the store S
Assigned(S, key, g) ==
  [S EXCEPT !.dc[key[1]] =
              IF g.raised THEN @
              ELSE DictSet(@, [Get(@, key[2]) EXCEPT !.current_value = g.v]),
            !.clo = g.clo, !.calls = <<key>>, !.raised = g.raised]

\* the rest of handle_read_request for a window with the one entry key
Assembled(S, key, start_address, quantity) ==
  [S |-> S,
   data |-> Copied([i \in 1..quantity |-> 0], Get(S.dc[key[1]], key[2]),
                   start_address, quantity)]

\* the callable stores current[0] and returns; current_value is assigned
\* and the response is assembled
RefreshDone(c) ==
  /\ pc[c] = "calling"
  /\ CellsBounded
  /\ \E rnd \in StepDraws :
       Dispatched(
         ReadReply(
           Assembled(
             Assigned(Store, local[c].key,
               generate_data(Get(data_config[local[c].key[1]],
                                 local[c].key[2]),
                             local[c].t, rnd,
                             Loaded(Get(data_config[local[c].key[1]],
                                        local[c].key[2]).value,
                                    local[c].seen, closure))),
             local[c].key, RaceStart(c), RaceQuantity(c)),
           request[c]), c)
  /\ local' = [local EXCEPT ![c] = NoRefresh]
  /\ pc' = [pc EXCEPT ![c] = "writing"]
  /\ UNCHANGED <<guiVars, now, running, cfgVars, inbox, data, request, sent,
                 parsed, events, active_clients, request_count>>

\* self.data_config[address_type][address] = {..., 'last_update': 0, ...}
Inserted(S, cmd) ==
  [S EXCEPT !.dc[cmd.address_type] =
     DictSet(@, [addr |-> cmd.address, value |-> cmd.value,
                 interval |-> cmd.interval, last_update |-> 0,
                 data_range |-> cmd.data_range, data_type |-> cmd.data_type,
                 current_value |-> NoValue])]

\* set_data_config up to the first logging call
InstallInsert ==
  /\ ~installing
  /\ applied < Len(configs)
  /\ configs[applied + 1].cmd = "data"
  /\ configs[applied + 1].address_type \in Spaces
  /\ SetStore(Inserted(Store, configs[applied + 1]))
  /\ installing' = TRUE
  /\ op' = NoOp
  /\ UNCHANGED <<guiVars, now, running, configs, applied, connVars>>

\* the store after config['last_update'] = current_time and
\* config['current_value'] = self.generate_data(config, current_time)
Seeded(S, cmd, t, rnd) ==
  PutEntry(S, cmd.address_type,
           Regenerate(Get(S.dc[cmd.address_type], cmd.address),
                      <<cmd.address_type, cmd.address, -1>>, S, t, rnd))

\* set_data_config from there to its end
InstallSeed ==
  /\ installing
  /\ CellsBounded
  /\ \E rnd \in StepDraws :
       Configured(Seeded(Store, configs[applied + 1], now, rnd),
                  configs[applied + 1])
  /\ applied' = applied + 1
  /\ installing' = FALSE
  /\ UNCHANGED <<guiVars, now, running, configs, connVars>>

\* a ramp at holding register 0 and a fixed value at holding register 1
RaceScripts ==
  { <<DataCmd(HR, 0, RampFn, 1, <<>>, "int16"),
      DataCmd(HR, 1, Const(IntV(5)), 1, <<>>, "uint16")>> }

\* both clients read holding register 0; the second goes on to register 1
RaceClients ==
  { [c \in Conns |-> IF c = 1 THEN <<ReadFrame(1, 1, 3, 0, 1)>>
                     ELSE <<ReadFrame(2, 2, 3, 0, 1),
                            ReadFrame(3, 2, 3, 1, 1)>>] }

InitRace ==
  /\ Idle
  /\ configs \in RaceScripts
  /\ inbox \in RaceClients

RaceWorker(c) ==
  \/ LoopHead(c)
  \/ Recv(c)
  \/ RecvEnd(c)
  \/ Parse(c)
  \/ Dispatch(c)
  \/ RefreshCheck(c)
  \/ RefreshCall(c)
  \/ RefreshDone(c)
  \/ Send(c)
  \/ SendFail(c)

NextRace ==
  \/ Tick
  \/ InstallInsert
  \/ InstallSeed
  \/ StartServer
  \/ StopServer
  \/ \E c \in Conns : Accept(c) \/ RaceWorker(c)

SpecRace == InitRace /\ [][NextRace]_vars

----------------------------------------------------------------------------
(* One connection and the frames a client can put on the wire              *)

WireScripts ==
  { <<DataCmd("coils", 0, Const(BoolV(TRUE)), 1, <<>>, "bool"),
      DataCmd("coils", 3, Const(StrV(<<48>>)), 1, <<>>, "string"),
      DataCmd("discrete_inputs", 1, BooleanFn, 1, <<0, 1>>, "bool")>>,
    <<DataCmd(HR, 0, Const(IntV(1000)), 1, <<>>, "int16"),
      BitsCmd(HR, 0, OverlayB),
      DataCmd(HR, 1, Const(FloatV(7)), 1, <<>>, "float32")>> }

\* read requests <<start, quantity>>: quantities around the caps of both
\* kinds of read and at the end of the 16-bit field
WireWindows ==
  { <<0, 0>>, <<0, 9>>, <<1, 9>>, <<0, MaxQuantityRegs>>,
    <<1, MaxQuantityRegs + 1>>, <<0, MaxQuantityBits + 1>>, <<1, 65535>> }

WireReads ==
  { ReadFrame(258, 17, function_code, w[1], w[2]) :
      function_code \in ReadCodes, w \in WireWindows }

\* read requests whose payload is shorter than two 16-bit fields
WireShort ==
  { Frame(1, 1, function_code, payload) :
      function_code \in ReadCodes, payload \in {<<>>, <<0, 0, 0>>} }

WireWrites ==
  { Frame(65535, 255, function_code, payload) :
      function_code \in WriteCodes,
      payload \in {<<>>, <<0, 0, 255, 0>>, <<0, 1, 0, 2, 4, 0, 10, 1, 2>>} }

WireIllegal ==
  { Frame(258, 1, function_code, payload) :
      function_code \in {0, 99, 131, 255},
      payload \in {<<>>, <<0, 0, 0, 1>>} }

\* buffers whose length field disagrees with the bytes that follow, and
\* buffers shorter than an MBAP header and a function code
WireOdd ==
  { FrameLen(258, 17, function_code, length, payload) :
      function_code \in {3, 6}, length \in {0, 4, 9},
      payload \in {<<>>, <<0, 0, 0, 1>>, <<0, 0, 0, 1, 7, 7>>} }
  \cup { <<0>>, <<0, 1, 0, 0, 0, 6, 1>>, <<0, 1, 0, 0, 0>> }

WireFrames == WireReads \cup WireShort \cup WireWrites \cup WireIllegal \cup WireOdd

InitWire ==
  /\ Idle
  /\ configs \in WireScripts
  /\ inbox \in {[c \in Conns |-> IF c = 1 THEN <<f>> ELSE <<>>] : f \in WireFrames}

NextWire ==
  \/ Tick
  \/ Configure
  \/ StartServer
  \/ Accept(1)
  \/ Worker(1)

SpecWire == InitWire /\ [][NextWire]_vars

----------------------------------------------------------------------------
(* Properties of the read operation                                        *)

Count(seq, x) == Cardinality({i \in 1..Len(seq) : seq[i] = x})
InSeq(seq, x) == \E i \in 1..Len(seq) : seq[i] = x

IsRead == op.name = "read"
OpSpace == address_type_map(op.function_code)
OpQuantity == ClampQuantity(op.function_code, op.quantity)
OpWindow == op.start_address..(op.start_address + OpQuantity - 1)

\* C1: an FC3/FC4 read returns exactly min(count, 125) words, each a 16-bit
\* word, whatever is configured (straddling and overlapping entries, bit
\* overlays) and whatever start and count are.
C1_ReadCoverage ==
  (IsRead /\ op.function_code \in {3, 4}) =>
     /\ Len(op.data) = Min(op.quantity, MaxQuantityRegs)
     /\ \A i \in 1..Len(op.data) : op.data[i] \in 0..65535

\* a read of a window that a multi-register entry enters from below, that
\* cuts another entry at its end and that holds a bit overlay
C1_Witness ==
  /\ IsRead /\ op.function_code = 3
  /\ op.start_address = 1 /\ op.quantity = 2
  /\ HasKey(data_config[HR], 0) /\ HasKey(data_config[HR], 2)
  /\ Get(data_config[HR], 0).data_type = "float64"
  /\ HasKey(bit_config[HR], 1)
  /\ Len(op.data) = 2

\* the same with a count above the cap
C1_WitnessCapped ==
  /\ IsRead /\ op.function_code = 4 /\ op.quantity = 126
  /\ Len(data_config[IR]) = 2
  /\ Len(op.data) = 125

\* the entries a read of (function_code, start_address .. +quantity) visits
Visits(e, function_code, start_address, quantity) ==
  \/ e.addr >= start_address /\ e.addr < start_address + quantity
  \/ /\ function_code \in {3, 4}
     /\ e.addr < start_address
     /\ e.addr + get_register_count(e.data_type) - 1 >= start_address

\* the register addresses the packed value of e occupies
Occupies(e, a) ==
  a >= e.addr /\ a < e.addr + Len(pack_value_to_registers(e.current_value, e.data_type))

\* v is a value the producer of config can deliver at time t
Produces(config, v, t, clo) ==
  \E r \in 0..(RandSpan - 1) :
     v = generate_data([config EXCEPT !.last_update = t], t, r, clo).v

\* refresh-if-due of one entry or overlay bit across a read step: before is
\* its record before the read, after its record afterwards
FreshnessLaw(before, after, key, calls, t, clo) ==
  before.interval > 0 =>
     IF t - before.last_update < before.interval
     THEN Count(calls, key) = 0 /\ after = before
     ELSE /\ Count(calls, key) = 1
          /\ after = [before EXCEPT !.last_update = t,
                                    !.current_value = after.current_value]
          /\ Produces(before, after.current_value, t, clo)

C2_Step ==
  op'.name = "read" =>
    LET fc == op'.function_code
        sp == address_type_map(fc)
        start == op'.start_address
        qty == ClampQuantity(fc, op'.quantity)
        dc == data_config[sp]
        dc2 == data_config'[sp]
    IN /\ Len(dc2) = Len(dc)
       /\ \A k \in 1..Len(dc) :
            Visits(dc[k], fc, start, qty) =>
              /\ FreshnessLaw(dc[k], dc2[k], <<sp, dc[k].addr, -1>>, op'.calls,
                              now, closure)
              /\ fc \in {1, 2} =>
                   op'.data[dc[k].addr - start + 1] = PyBool(dc2[k].current_value)
              /\ ( /\ fc \in {3, 4}
                   /\ dc[k].addr >= start
                   /\ ~HasKey(bit_config'[sp], dc[k].addr)
                   /\ Occupies(dc2[k], dc[k].addr)
                   /\ \A j \in 1..Len(dc2) :
                        j # k => ~Occupies(dc2[j], dc[k].addr) ) =>
                   op'.data[dc[k].addr - start + 1] =
                     pack_value_to_registers(dc2[k].current_value,
                                             dc2[k].data_type)[1]
       /\ fc \in {3, 4} =>
            /\ Len(bit_config'[sp]) = Len(bit_config[sp])
            /\ \A k \in 1..Len(bit_config[sp]) :
                 LET ov == bit_config[sp][k]
                     ov2 == bit_config'[sp][k]
                 IN (ov.addr >= start /\ ov.addr < start + qty) =>
                      /\ Len(ov2.bits) = Len(ov.bits)
                      /\ \A j \in 1..Len(ov.bits) :
                           /\ FreshnessLaw(ov.bits[j], ov2.bits[j],
                                           <<sp, ov.addr, ov.bits[j].bit>>,
                                           op'.calls, now, closure)
                           /\ BitOf(op'.data[ov.addr - start + 1], ov.bits[j].bit)
                                = IF PyBool(ov2.bits[j].current_value) THEN 1 ELSE 0

\* C2: with a single reader, a read of an entry of interval I > 0 that is
\* not yet due leaves it untouched without calling its producer, and a read
\* of a due entry calls the producer exactly once, stamps last_update with
\* the time of the read and returns the new value; for coil, register and
\* overlay-bit entries, and for a register that also carries an overlay.
C2_Freshness == [][C2_Step]_vars

\* a read at which a register entry and an overlay bit of the same address
\* were both due and both refreshed
C2_Witness ==
  /\ IsRead /\ op.function_code = 3 /\ now >= 1
  /\ Count(op.calls, <<HR, 0, -1>>) = 1
  /\ Count(op.calls, <<HR, 0, 15>>) = 1
  /\ Count(op.calls, <<HR, 0, 0>>) = 0

\* the word a base word and an overlay compose to: bit b follows the cached
\* value of the overlay bit b when the overlay has one, the base otherwise
RECURSIVE Compose(_, _, _)
Compose(base, bits, b) ==
  IF b > 15 THEN 0
  ELSE (IF HasBit(bits, b)
        THEN (IF PyBool(bits[BitIndexOf(bits, b)].current_value) THEN 1 ELSE 0)
        ELSE BitOf(base, b)) * Pow2(b)
       + Compose(base, bits, b + 1)

\* C3: for an address with an entry E and an overlay B the returned word is
\* pack(E)[0] with the overlay bits set or cleared per their cached values.
C3_OverlayOnPackedWord ==
  (IsRead /\ op.function_code \in {3, 4}) =>
    \A a \in OpWindow :
      (HasKey(data_config[OpSpace], a) /\ HasKey(bit_config[OpSpace], a)) =>
        LET E == Get(data_config[OpSpace], a)
            B == Get(bit_config[OpSpace], a).bits
        IN op.data[a - op.start_address + 1] =
             Compose(pack_value_to_registers(E.current_value, E.data_type)[1], B, 0)

----------------------------------------------------------------------------
(* Properties of the connection worker                                     *)

\* function_code | 0x80 of a byte
ErrorCode(function_code) ==
  IF function_code >= 128 THEN function_code ELSE function_code + 128

\* resp is the exception frame of request req with body byte code
IsException(resp, req, code) ==
  resp = <<req.transaction_id \div 256, req.transaction_id % 256, 0, 0, 0, 3,
           req.unit_id, ErrorCode(req.function_code), code>>

C4_Answer ==
  \A c \in Conns :
    pc[c] = "writing" =>
      /\ request[c].function_code \notin {1, 2, 3, 4, 5, 6, 15, 16}
           => IsException(response[c], request[c], 1)
      /\ request[c].function_code \in {1, 2, 3, 4} /\ Len(request[c].data) < 4
           => IsException(response[c], request[c], 2)
      /\ op.name = "fault" /\ op.c = c
           => IsException(response[c], request[c], 4)

C4_Step ==
  \A c \in Conns :
    /\ pc[c] = "dispatching" /\ pc'[c] # "dispatching"
         => pc'[c] = "writing" /\ active_clients'[c]
    /\ pc[c] = "writing" /\ sent'[c] # sent[c]
         => /\ sent'[c] = Append(sent[c], response[c])
            /\ pc'[c] = "reading"
            /\ active_clients'[c]

(* C4: every parsed request with an unsupported function code, a read     *)
(* payload shorter than 4 bytes or a fault during read assembly is         *)
(* answered with the exception frame of its transaction id and unit id,    *)
(* function code | 0x80, length 3 and body 0x01, 0x02 or 0x04; the worker  *)
(* then holds the response to send, and sending it takes the worker back   *)
(* to reading on the open connection.                                      *)
C4_ExceptionFrames == [](C4_Answer) /\ [][C4_Step]_vars

\* the worker is back at reading after it sent the frame of a fault
C4_Witness ==
  /\ pc[1] = "reading"
  /\ active_clients[1]
  /\ Len(sent[1]) = 1
  /\ Len(parsed[1]) = 1
  /\ parsed[1][1].function_code = 3
  /\ Len(parsed[1][1].data) >= 4
  /\ sent[1][1] = <<1, 2, 0, 0, 0, 3, 17, 131, 4>>

C5_Step ==
  \A c \in Conns :
    /\ pc[c] = "writing"
    /\ request[c].function_code \in {5, 6, 15, 16}
    /\ sent'[c] # sent[c]
    => sent'[c] = Append(sent[c], data[c])

(* C5: the bytes sent in answer to a parsed request with function code 5,  *)
(* 6, 15 or 16 are exactly the bytes received as that request, whatever    *)
(* the payload.                                                            *)
C5_WriteEcho == [][C5_Step]_vars

\* a write of two registers (FC16), 17 bytes long, has been echoed
C5_Witness ==
  /\ Len(parsed[1]) = 1
  /\ parsed[1][1].function_code = 16
  /\ sent[1] = << <<255, 255, 0, 0, 0, 11, 255, 16, 0, 1, 0, 2, 4, 0, 10, 1, 2>> >>

C6_Step ==
  \A c \in Conns :
    /\ pc[c] = "dispatching"
    /\ pc'[c] # "dispatching"
    /\ request[c].function_code \in {5, 6, 15, 16}
    => /\ data_config' = data_config
       /\ bit_config' = bit_config
       /\ closure' = closure

(* C6: handling a request with function code 5, 6, 15 or 16 changes no     *)
(* entry and no overlay bit of any address space (value, interval, type,   *)
(* cached value, last refresh) and no captured cell of a callable.         *)
C6_WriteLeavesStore == [][C6_Step]_vars

\* a write of 0xFF00 to holding register 0 has been handled while the
\* register is configured; its cached value is still 1000
C6_Witness ==
  /\ pc[1] = "writing"
  /\ op.name = "write"
  /\ request[1].function_code = 6
  /\ request[1].data = <<0, 0, 255, 0>>
  /\ HasKey(data_config[HR], 0)
  /\ Get(data_config[HR], 0).current_value = IntV(1000)

\* the worker of c has just completed the read of its request
JustRead(c) == pc[c] = "writing" /\ op.name = "read" /\ op.c = c

(* C7: a read with quantity above 2000 (FC1, FC2) or above 125 (FC3, FC4)  *)
(* whose assembly completes is answered with a normal response for the     *)
(* clamped quantity: the function code is the request's, byte_count is     *)
(* 250, which fits one byte, the MBAP length field is 2 + 1 + byte_count   *)
(* and the body holds byte_count bytes.                                    *)
C7_QuantityClamp ==
  \A c \in Conns :
    /\ JustRead(c)
    /\ \/ op.function_code \in {1, 2} /\ op.quantity > 2000
       \/ op.function_code \in {3, 4} /\ op.quantity > 125
    => /\ Len(op.data) = IF op.function_code \in {1, 2} THEN 2000 ELSE 125
       /\ Len(response[c]) = 9 + 250
       /\ response[c][1] * 256 + response[c][2] = request[c].transaction_id
       /\ response[c][5] * 256 + response[c][6] = 2 + 1 + 250
       /\ response[c][7] = request[c].unit_id
       /\ response[c][8] = op.function_code
       /\ response[c][9] = 250
       /\ response[c][9] < 256

\* a read of 126 holding registers from address 1 has been answered while
\* the float32 entry at address 1 is configured
C7_Witness ==
  /\ JustRead(1)
  /\ op.function_code = 3
  /\ op.start_address = 1
  /\ op.quantity = 126
  /\ HasKey(data_config[HR], 1)
  /\ response[1][9] = 250
  /\ SubSeq(response[1], 10, 13) = <<64, 96, 0, 0>>

\* a read of 65535 coils has been answered
C7_WitnessBits ==
  /\ JustRead(1)
  /\ op.function_code = 1
  /\ op.quantity = 65535
  /\ HasKey(data_config["coils"], 3)
  /\ response[1][9] = 250

(* C8: for an FC1/FC2 read of (start, count), count clamped to 2000, the   *)
(* i-th returned bit is false when address start+i is not configured and   *)
(* the truth value of the entry's cached value after the read otherwise;   *)
(* the body has byte_count = ceil(count/8) data bytes, bit i is bit        *)
(* (i mod 8) of data byte (i div 8), and the bits of the last byte beyond  *)
(* count are 0.                                                            *)
C8_BitReads ==
  \A c \in Conns :
    JustRead(c) /\ op.function_code \in {1, 2} =>
      LET count == IF op.quantity > 2000 THEN 2000 ELSE op.quantity
          space == IF op.function_code = 1 THEN "coils" ELSE "discrete_inputs"
          byte_count == (count + 7) \div 8
          BitAt(i) ==
            /\ \E k \in 1..Len(data_config[space]) :
                  data_config[space][k].addr = op.start_address + i
            /\ \A k \in 1..Len(data_config[space]) :
                  data_config[space][k].addr = op.start_address + i
                    => PyBool(data_config[space][k].current_value)
      IN /\ Len(op.data) = count
         /\ \A i \in 0..(count - 1) : op.data[i + 1] = BitAt(i)
         /\ Len(response[c]) = 9 + byte_count
         /\ response[c][8] = op.function_code
         /\ response[c][9] = byte_count
         /\ \A j \in 0..(byte_count - 1), b \in 0..7 :
              (response[c][10 + j] \div (2 ^ b)) % 2
                 = IF 8 * j + b < count /\ op.data[8 * j + b + 1] THEN 1 ELSE 0

\* 9 coils from address 0 have been read with coil 0 (True) and coil 3
\* (the string "0") configured: data bytes 00001001 and 0
C8_Witness ==
  /\ JustRead(1)
  /\ op.function_code = 1
  /\ op.start_address = 0
  /\ op.quantity = 9
  /\ response[1] = <<1, 2, 0, 0, 0, 5, 17, 1, 2, 9, 0>>

C9_Paired ==
  \A c \in Conns :
    /\ Len(sent[c]) <= Len(parsed[c])
    /\ Len(parsed[c]) <= Len(sent[c]) + 1
    /\ pc[c] \in {"idle", "reading", "receiving", "parsing"}
         => Len(sent[c]) = Len(parsed[c])
    /\ pc[c] \in {"dispatching", "writing"}
         => Len(parsed[c]) = Len(sent[c]) + 1
    /\ \A k \in 1..Len(sent[c]) :
         /\ Len(sent[c][k]) >= 8
         /\ sent[c][k][1] * 256 + sent[c][k][2] = parsed[c][k].transaction_id
         /\ sent[c][k][7] = parsed[c][k].unit_id
         /\ \A d \in Conns \ {c} : \A j \in 1..Len(parsed[d]) :
              sent[c][k][1] * 256 + sent[c][k][2] # parsed[d][j].transaction_id

C9_Step ==
  \A c \in Conns :
    /\ sent'[c] # sent[c]
         => /\ pc[c] = "writing"
            /\ sent'[c] = Append(sent[c], response[c])
    /\ parsed'[c] # parsed[c]
         => /\ pc[c] = "parsing"
            /\ Len(parsed'[c]) = Len(parsed[c]) + 1
            /\ SubSeq(parsed'[c], 1, Len(parsed[c])) = parsed[c]

(* C9: on each connection the responses sent and the requests parsed pair  *)
(* up one to one in order: the worker sends one response for a parsed      *)
(* request before it receives again, the k-th response carries the         *)
(* transaction id and unit id of the k-th parsed request of that           *)
(* connection and the transaction id of no request of the other            *)
(* connection, and both logs only grow at their ends.                      *)
C9_ResponsePerRequest == [](C9_Paired) /\ [][C9_Step]_vars

\* both clients have had two requests answered while the other was served
C9_Witness ==
  /\ Len(sent[1]) = 2
  /\ Len(sent[2]) = 2
  /\ Len(parsed[1]) = 2
  /\ Len(parsed[2]) = 2
  /\ sent[1][1][2] = 1
  /\ sent[1][2][2] = 2
  /\ sent[2][1][2] = 4
  /\ sent[2][2][2] = 7

\* the buffer is an MBAP header, a function code and as many payload bytes
\* as the length field announces
WellFormed(buf) ==
  /\ Len(buf) >= 8
  /\ buf[5] * 256 + buf[6] >= 2
  /\ buf[5] * 256 + buf[6] - 2 = Len(buf) - 8

(* C10: a received buffer is parsed into a request only when it has at     *)
(* least 8 bytes and its length field is at least 2 and equals the number  *)
(* of bytes after the function code plus 2; the request then carries the   *)
(* transaction id, unit id, function code and all bytes after the function *)
(* code; every buffer that is dropped is not of that form.                 *)
C10_ParseMalformed ==
  \A c \in Conns :
    /\ pc[c] = "dispatching"
         => /\ WellFormed(data[c])
            /\ request[c] =
                 [transaction_id |-> data[c][1] * 256 + data[c][2],
                  unit_id |-> data[c][7],
                  function_code |-> data[c][8],
                  data |-> SubSeq(data[c], 9, Len(data[c]))]
    /\ pc[c] = "reading" /\ data[c] # <<>> /\ request[c] = NoRequest
         => ~WellFormed(data[c])

----------------------------------------------------------------------------
(* Properties of the worker loop and the codec                             *)

\* the worker of c leaves the parse of a buffer that yields no request
Dropped(c) ==
  pc[c] = "parsing" /\ pc'[c] # "parsing" /\ request'[c] = NoRequest

C11_Step ==
  \A c \in Conns :
    Dropped(c) =>
      /\ sent'[c] = sent[c]
      /\ response'[c] = response[c]
      /\ parsed'[c] = parsed[c]
      /\ data_config' = data_config
      /\ bit_config' = bit_config
      /\ closure' = closure
      /\ pc'[c] = "reading"
      /\ active_clients'[c]
      /\ inbox'[c] = inbox[c]

\* the k-th frame sent on c is a reply to the k-th request parsed on c: its
\* exception frame, or a frame with its transaction id, unit id and
\* function code
C11_Answered ==
  \A c \in Conns : \A k \in 1..Len(sent[c]) :
    /\ k <= Len(parsed[c])
    /\ \/ \E code \in {1, 2, 4} : IsException(sent[c][k], parsed[c][k], code)
       \/ /\ Len(sent[c][k]) >= 8
          /\ sent[c][k][1] * 256 + sent[c][k][2] = parsed[c][k].transaction_id
          /\ sent[c][k][7] = parsed[c][k].unit_id
          /\ sent[c][k][8] = parsed[c][k].function_code

(* C11: when the parse of a received buffer fails, the worker sends        *)
(* nothing for it, prepares no response, changes no entry, overlay or      *)
(* captured cell of the store, and is back at the head of its loop with    *)
(* the connection open and the client's next frame still to be received;   *)
(* every frame sent on the connection, before or after a dropped buffer,   *)
(* is the reply to the request parsed at the same position.                *)
C11_MalformedDropped == [](C11_Answered) /\ [][C11_Step]_vars

\* client 1 sent an unsupported function code, a buffer of 7 bytes and a
\* read of 9 coils: two requests were parsed and answered, the second with
\* the coils read after the drop
C11_Witness ==
  /\ inbox[1] = <<>>
  /\ pc[1] = "reading"
  /\ active_clients[1]
  /\ data[1] = ReadFrame(6, 1, 1, 0, 9)
  /\ Len(parsed[1]) = 2
  /\ sent[1] = << <<0, 5, 0, 0, 0, 3, 1, 227, 1>>,
                  <<0, 6, 0, 0, 0, 5, 1, 1, 2, 1, 0>> >>

(* C12: the frame the response encoder builds for a completed read with    *)
(* function code 1, 2, 3 or 4 carries in its MBAP length field 1 + 1 + the *)
(* number of bytes after the function code, and parse_modbus_request       *)
(* applied to that frame returns the transaction id and unit id of the     *)
(* request, the function code of the read and, as payload, exactly the     *)
(* bytes after the function code.                                          *)
C12_FrameRoundTrip ==
  \A c \in Conns :
    JustRead(c) =>
      /\ response[c] = create_modbus_response(request[c].transaction_id,
                          request[c].unit_id, op.function_code, op.data)
      /\ Len(response[c]) >= 9
      /\ response[c][5] * 256 + response[c][6]
           = 1 + 1 + Len(SubSeq(response[c], 9, Len(response[c])))
      /\ parse_modbus_request(response[c]) =
           [transaction_id |-> request[c].transaction_id,
            unit_id |-> request[c].unit_id,
            function_code |-> op.function_code,
            data |-> SubSeq(response[c], 9, Len(response[c]))]

\* the response to a read of 9 holding registers from address 0, with the
\* float32 entry 3.5 at address 1, parses to a payload of 19 bytes
C12_Witness ==
  /\ JustRead(1)
  /\ op.function_code = 3
  /\ op.start_address = 0
  /\ op.quantity = 9
  /\ HasKey(data_config[HR], 1)
  /\ SubSeq(response[1], 1, 9) = <<1, 2, 0, 0, 0, 21, 17, 3, 18>>
  /\ Len(parse_modbus_request(response[1]).data) = 19
  /\ SubSeq(parse_modbus_request(response[1]).data, 4, 7) = <<64, 96, 0, 0>>

----------------------------------------------------------------------------
(* Properties of the configuration calls                                   *)

\* the configuration call that is made next
NextCmd == configs[applied + 1]

\* the next step is a set_data_config call on one of the four spaces
Installs ==
  /\ applied' = applied + 1
  /\ NextCmd.cmd = "data"
  /\ NextCmd.address_type \in Spaces

\* the next step is a set_bit_config call on a register space
InstallsBits ==
  /\ applied' = applied + 1
  /\ NextCmd.cmd = "bits"
  /\ NextCmd.address_type \in BitSpaces

\* every configured entry has a cached value
CachedDefined(dc) ==
  \A sp \in Spaces : \A k \in 1..Len(dc[sp]) :
    dc[sp][k].current_value # NoValue

\* the call puts its entry in place of any earlier one at the address and
\* leaves every other entry as it was
C16_Replaces ==
  Installs =>
    /\ HasKey(data_config'[NextCmd.address_type], NextCmd.address)
    /\ Get(data_config'[NextCmd.address_type], NextCmd.address).value
         = NextCmd.value
    /\ Get(data_config'[NextCmd.address_type], NextCmd.address).interval
         = NextCmd.interval
    /\ Get(data_config'[NextCmd.address_type], NextCmd.address).data_type
         = NextCmd.data_type
    /\ \A sp \in Spaces : \A k \in 1..Len(data_config[sp]) :
         (sp # NextCmd.address_type
            \/ data_config[sp][k].addr # NextCmd.address)
           => Get(data_config'[sp], data_config[sp][k].addr)
                = data_config[sp][k]
    /\ \A sp \in Spaces :
         Keys(data_config'[sp])
           = Keys(data_config[sp])
               \cup (IF sp = NextCmd.address_type THEN {NextCmd.address}
                     ELSE {})

\* the call invokes the producer of its entry once and no other, and
\* stamps the entry with the time of the call
C16_Seeds ==
  Installs =>
    /\ op'.calls = << <<NextCmd.address_type, NextCmd.address, -1>> >>
    /\ Get(data_config'[NextCmd.address_type], NextCmd.address).last_update
         = now

\* the call leaves its entry, and every other, with a cached value
C16_Caches ==
  Installs => CachedDefined(data_config')

(* C16: set_data_config on a configured address puts the new entry in the  *)
(* place of the old one and leaves the other entries unchanged; it invokes *)
(* the producer exactly once, so that the cached value is defined and the  *)
(* last refresh is the time of the call; after any sequence of calls every *)
(* configured entry has a defined cached value.                            *)
C16_InstallSeeds == [][C16_Replaces /\ C16_Seeds /\ C16_Caches]_vars

\* the bit indices of the overlay at address in the dict d
OverlayBits(d, address) ==
  IF HasKey(d, address)
  THEN {Get(d, address).bits[j].bit : j \in 1..Len(Get(d, address).bits)}
  ELSE {}

\* the bit indices a call was given
GivenBits(cmd) == {cmd.bits[j].bit : j \in 1..Len(cmd.bits)}

(* C17: a set_bit_config call that succeeds replaces the overlay of its    *)
(* base address: afterwards the overlay has the bits of the call and no    *)
(* bit of the previous overlay that the call does not name.                *)
C17_OverlayReplaced ==
  [][(InstallsBits /\ ~op'.raised)
       => OverlayBits(bit_config'[NextCmd.address_type], NextCmd.address)
            = GivenBits(NextCmd)]_vars

\* the space of the next call is not one the call accepts
BadSpace ==
  \/ NextCmd.cmd = "data" /\ NextCmd.address_type \notin Spaces
  \/ NextCmd.cmd = "bits" /\ NextCmd.address_type \notin BitSpaces

(* C18: set_data_config with a space name that is none of the four, and    *)
(* set_bit_config with a space that is not a register space, raise an      *)
(* error and leave the entries, the overlays and the producers unchanged.  *)
C18_BadSpaceRejected ==
  [][(applied' = applied + 1 /\ BadSpace)
       => /\ op'.raised
          /\ data_config' = data_config
          /\ bit_config' = bit_config
          /\ closure' = closure]_vars

\* set_data_config on an unknown space and, after it, set_bit_config on
\* the coils have raised, with an entry configured before them
C18_Witness ==
  /\ applied = 3
  /\ configs[2].address_type = "registers"
  /\ configs[3].cmd = "bits"
  /\ configs[3].address_type = "coils"
  /\ op.name = "set_bit_config"
  /\ op.raised
  /\ HasKey(data_config[HR], 0)

\* every bit index of every overlay is in 0..15
BitsInRange ==
  \A sp \in BitSpaces : \A k \in 1..Len(bit_config[sp]) :
    \A j \in 1..Len(bit_config[sp][k].bits) :
      bit_config[sp][k].bits[j].bit \in 0..15

\* a set_bit_config call given a bit index outside 0..15 raises an error,
\* installs nothing and creates no overlay
C19_Step ==
  (InstallsBits /\ \E b \in GivenBits(NextCmd) : b \notin 0..15)
    => /\ op'.raised
       /\ bit_config' = bit_config

(* C19: set_bit_config with any bit index outside 0..15 is rejected,       *)
(* nothing is installed and no overlay is created for the base address;    *)
(* all bit indices of the overlays are in 0..15.                           *)
C19_BadBitRejected == [][C19_Step]_vars

(* C20: no configuration call installs an interval that is not greater    *)
(* than 0: every configured entry and every bit of an overlay has an       *)
(* interval greater than 0.                                                *)
C20_IntervalPositive ==
  /\ \A sp \in Spaces : \A k \in 1..Len(data_config[sp]) :
       data_config[sp][k].interval > 0
  /\ \A sp \in BitSpaces : \A k \in 1..Len(bit_config[sp]) :
       \A j \in 1..Len(bit_config[sp][k].bits) :
         bit_config[sp][k].bits[j].interval > 0

----------------------------------------------------------------------------
(* Properties of snapshot and reset                                        *)

\* the view the set_data_config calls of cmds install: per space and
\* address the last call counts
InstalledView(cmds) ==
  [sp \in Spaces |->
     { [addr |-> cmds[k].address, value |-> cmds[k].value,
        interval |-> cmds[k].interval, data_range |-> cmds[k].data_range,
        data_type |-> cmds[k].data_type] :
         k \in { k \in 1..Len(cmds) :
                   /\ cmds[k].cmd = "data"
                   /\ cmds[k].address_type = sp
                   /\ \A j \in (k + 1)..Len(cmds) :
                        ~ /\ cmds[j].cmd = "data"
                          /\ cmds[j].address_type = sp
                          /\ cmds[j].address = cmds[k].address } }]

\* the server was started and has been reset since
StartedAndReset ==
  /\ Len(lifecycle) > 0
  /\ lifecycle[Len(lifecycle)] = "reset_data"

(* C13: once the server has been started with a configuration and reset,   *)
(* every address space holds exactly the entries configured at the start,  *)
(* each with its value, interval, range and declared type.                 *)
C13_ResetRestores ==
  StartedAndReset => View(data_config) = InstalledView(configs)

\* the persistent view of the snapshot, once one has been taken
SnapshotView ==
  IF Truthy(original_data_config) THEN View(original_data_config) ELSE <<>>

\* a reset_data() that follows an earlier one with nothing but reads and
\* the passage of time in between yields the view the earlier one left
C14_SecondReset ==
  (op'.name = "reset_data" /\ reset_view.valid /\ reset_view.applied = applied)
    => View(data_config') = reset_view.view

\* a read leaves the persistent view of the snapshot as it was
C14_ReadKeepsSnapshot ==
  op'.name \in {"read", "fault"} => SnapshotView' = SnapshotView

Shutdown(i) ==
  /\ lifecycle[i] = "stop"
  /\ lifecycle[i - 1] = "start"

\* the start at position j is the first one after position i
NextStart(i, j) ==
  /\ lifecycle[j] = "start"
  /\ \A k \in (i + 1)..(j - 1) : lifecycle[k] # "start"

(* C15: in the history of the server every shutdown, by stop_server or by  *)
(* the failure of the server thread, is followed by a reset_data() before  *)
(* the server is started again.                                            *)
C15_ResetBeforeRestart ==
  \A i \in 2..Len(lifecycle) : \A j \in (i + 1)..Len(lifecycle) :
    Shutdown(i) /\ NextStart(i, j)
      => \E r \in (i + 1)..(j - 1) : lifecycle[r] = "reset_data"

\* the server thread failed, the GUI stopped the server, and the server
\* has been started again
C15_Witness ==
  /\ lifecycle = <<"start", "stop", "stop", "reset_data", "start">>
  /\ is_running
  /\ simulator = "serving"

----------------------------------------------------------------------------
(* Properties of widths and of reads across several registers              *)

\* the width in registers of a value v of the declared type
Width(v, data_type) ==
  CASE data_type \in {"int16", "uint16", "bool"} -> 1
    [] data_type \in {"int32", "uint32", "float32"} -> 2
    [] data_type = "float64" -> 4
    [] data_type = "string" -> Min(Len(PyStr(v)), 125)

\* the packed registers of the entry e
Packed(e) == pack_value_to_registers(e.current_value, e.data_type)

\* packing the cached value of every register entry produces the number of
\* registers of its type
PackedWidths ==
  \A sp \in BitSpaces : \A k \in 1..Len(data_config[sp]) :
    Len(Packed(data_config[sp][k]))
      = Width(data_config[sp][k].current_value, data_config[sp][k].data_type)

(* C24: packing the cached value of an entry produces 1 register for       *)
(* int16, uint16 and bool, 2 for int32, uint32 and float32, 4 for float64  *)
(* and min(len, 125) for a string; and the width by which the read decides *)
(* whether an entry reaches into the window is that number of registers.   *)
C24_WidthConsistent ==
  /\ PackedWidths
  /\ \A sp \in BitSpaces : \A k \in 1..Len(data_config[sp]) :
       get_register_count(data_config[sp][k].data_type)
         = Len(Packed(data_config[sp][k]))

\* no other entry and no overlay has a word at the register address a
OnlyWordAt(sp, k, a) ==
  /\ ~HasKey(bit_config[sp], a)
  /\ \A j \in 1..Len(data_config[sp]) :
       j # k => ~Occupies(data_config[sp][j], a)

(* C29: a register read whose window is entered from below by an entry of  *)
(* any type, a string included, returns at the head of the window the      *)
(* packed words of that entry from index start - addr on.                  *)
C29_StraddleCopied ==
  (IsRead /\ op.function_code \in {3, 4}) =>
    \A k \in 1..Len(data_config[OpSpace]) :
      LET e == data_config[OpSpace][k]
      IN e.addr < op.start_address =>
           \A a \in OpWindow :
             (Occupies(e, a) /\ OnlyWordAt(OpSpace, k, a)) =>
               op.data[a - op.start_address + 1] = Packed(e)[a - e.addr + 1]

(* C30: at an address of the window that has an overlay and no entry and   *)
(* that holds a later word of a multi-register entry, the read returns     *)
(* that word with the bits of the overlay set or cleared per their cached  *)
(* values and every other bit as the entry packed it.                      *)
C30_OverlayOnLaterWord ==
  (IsRead /\ op.function_code \in {3, 4}) =>
    \A a \in OpWindow : \A k \in 1..Len(data_config[OpSpace]) :
      LET e == data_config[OpSpace][k]
      IN ( /\ HasKey(bit_config[OpSpace], a)
           /\ ~HasKey(data_config[OpSpace], a)
           /\ e.addr >= op.start_address
           /\ e.addr < a
           /\ Occupies(e, a)
           /\ \A j \in 1..Len(data_config[OpSpace]) :
                j # k => ~Occupies(data_config[OpSpace][j], a) ) =>
           op.data[a - op.start_address + 1] =
             Compose(Packed(e)[a - e.addr + 1],
                     Get(bit_config[OpSpace], a).bits, 0)

----------------------------------------------------------------------------
(* Properties of stop() against the server thread                          *)

\* stop() has been called on the simulator since it was last started
Stopped ==
  \E i \in 1..Len(lifecycle) :
    /\ lifecycle[i] = "stop"
    /\ \A j \in (i + 1)..Len(lifecycle) : lifecycle[j] # "start"

(* C28: once stop() has been called on the simulator its running flag is   *)
(* false and stays false, however stop() interleaves with the thread that  *)
(* runs start(), also when stop() runs before start() has set the flag.    *)
C28_StopHolds == Stopped => ~running

----------------------------------------------------------------------------
(* Properties of the observer callback and the client table                *)

(* C21: on each connection the callback has received 'request_received'    *)
(* once for every request parsed so far and for nothing else: a buffer     *)
(* that does not parse gives no such event.  (While a buffer is being      *)
(* parsed its event may already have been delivered.)                      *)
C21_EventPerRequest ==
  \A c \in Conns :
    pc[c] # "parsing" =>
      Count(events[c], "request_received") = Len(parsed[c])

(* C22: for every connection in the client table, between two requests    *)
(* the request counter of its entry is the number of requests the worker   *)
(* has handled on it so far: 0 after the accept, one more with each        *)
(* request answered.                                                       *)
C22_RequestCounter ==
  \A c \in Conns :
    (active_clients[c] /\ pc[c] = "reading") =>
      request_count[c] = Len(sent[c])

----------------------------------------------------------------------------
(* Properties of the life of a worker                                      *)

\* the worker of connection c runs
Working(c) == pc[c] \notin {"idle", "closed"}

\* the steps of a worker follow the loop, and a closed connection stays
\* closed: nothing is handled or sent on it
WorkerMoves ==
  \A c \in Conns :
    /\ <<pc[c], pc'[c]>> \in
         { <<"idle", "idle">>, <<"idle", "reading">>,
           <<"reading", "reading">>, <<"reading", "receiving">>,
           <<"reading", "closed">>,
           <<"receiving", "receiving">>, <<"receiving", "parsing">>,
           <<"receiving", "closed">>,
           <<"parsing", "parsing">>, <<"parsing", "dispatching">>,
           <<"parsing", "reading">>,
           <<"dispatching", "dispatching">>, <<"dispatching", "writing">>,
           <<"writing", "writing">>, <<"writing", "reading">>,
           <<"writing", "closed">>,
           <<"closed", "closed">> }
    /\ pc[c] = "closed" =>
         /\ sent'[c] = sent[c]
         /\ parsed'[c] = parsed[c]
         /\ events'[c] = events[c]

(* C23: a worker whose server has been stopped reaches CLOSED in the end,  *)
(* also when its client sends nothing further after the stop.              *)
C23_ClosesAfterStop ==
  \A c \in Conns : (Working(c) /\ ~running) ~> (pc[c] = "closed")

----------------------------------------------------------------------------
(* Properties of the threads without synchronisation                       *)

\* worker c has tested last_update of an entry and has not yet assigned
\* current_value
Refreshing(c) == pc[c] \in {"checked", "calling"}

(* C25: the refresh of a due entry is atomic per entry: no two workers are *)
(* at the same time between the test of last_update and the assignment of  *)
(* the cached value of one entry, so that a due entry is regenerated by    *)
(* one worker and not by each of them.                                     *)
C25_RefreshAtomic ==
  \A c \in Conns, d \in Conns :
     (c # d /\ Refreshing(c) /\ Refreshing(d)) => local[c].key # local[d].key

\* the number of calls of the ramp at holding register 0 that the step
\* into the operation o completed
RampCalls(o) == Count(o.calls, <<HR, 0, -1>>)

C26_Step ==
  closure'[RampFn.id]
     = (closure[RampFn.id] + RampCalls(op') * RampFn.a) % RampFn.b

(* C26: concurrent refreshes do not corrupt the accumulator of a ramp:     *)
(* every step that completes k calls of the ramp (step, modulus) leaves    *)
(* the accumulator at (accumulator before + k * step) mod modulus, so that *)
(* no increment is lost whatever the interleaving of the workers.          *)
C26_RampCounts == [][C26_Step]_vars

\* every entry of the dict d that the window touches has its cached value
CachedInWindow(d, start_address, quantity) ==
  \A k \in 1..Len(d) :
     Touches(d[k], start_address, quantity) => d[k].current_value # NoValue

C27_Step ==
  (op'.name = "read" /\ op'.c \in Conns /\ op'.function_code \in {3, 4})
     => CachedInWindow(data_config[address_type_map(op'.function_code)],
                       op'.start_address,
                       ClampQuantity(op'.function_code, op'.quantity))

(* C27: an install is atomic for the reads of the workers: a worker that   *)
(* answers a read finds every entry of its window complete, with its       *)
(* cached value, and never the entry set_data_config has inserted and not  *)
(* yet initialised.                                                        *)
C27_InstallAtomic == [][C27_Step]_vars

----------------------------------------------------------------------------
(* Properties of reads of overlapping entries                              *)

\* the position in the dict d of the last entry that occupies the address a
LastAt(d, a) ==
  CHOOSE k \in 1..Len(d) :
    /\ Occupies(d[k], a)
    /\ \A j \in (k + 1)..Len(d) : ~Occupies(d[j], a)

\* at least two entries of the dict d occupy the address a
Shared(d, a) ==
  \E j \in 1..Len(d), k \in 1..Len(d) :
    j # k /\ Occupies(d[j], a) /\ Occupies(d[k], a)

(* C31: a register read returns, at every address of its window that two   *)
(* entries occupy and that has no overlay, the packed word of the entry     *)
(* that comes last in the iteration of the dict; the word is a function of  *)
(* the store alone and does not depend on start and count of the window.    *)
C31_LastWriter ==
  (IsRead /\ op.function_code \in {3, 4}) =>
    \A a \in OpWindow :
      (Shared(data_config[OpSpace], a) /\ ~HasKey(bit_config[OpSpace], a)) =>
        op.data[a - op.start_address + 1] =
          Packed(data_config[OpSpace][LastAt(data_config[OpSpace], a)])
            [a - data_config[OpSpace][LastAt(data_config[OpSpace], a)].addr + 1]

----------------------------------------------------------------------------
(* Properties of what a read leaves alone                                  *)

\* the entry e has its address or one of its packed registers in the window
InWindow(e, start_address, quantity) ==
  \E a \in start_address..(start_address + quantity - 1) :
     a = e.addr \/ Occupies(e, a)

\* the dict after differs from the dict before at most in last_update and
\* current_value of the entries in the window
OnlyRefreshed(before, after, start_address, quantity) ==
  /\ Len(after) = Len(before)
  /\ \A k \in 1..Len(before) :
       /\ [after[k] EXCEPT !.last_update = before[k].last_update,
                           !.current_value = before[k].current_value]
            = before[k]
       /\ ~InWindow(before[k], start_address, quantity) => after[k] = before[k]

\* the same for the bits of the overlays of a space
OnlyRefreshedBits(before, after, start_address, quantity) ==
  /\ Len(after) = Len(before)
  /\ \A k \in 1..Len(before) :
       /\ after[k].addr = before[k].addr
       /\ Len(after[k].bits) = Len(before[k].bits)
       /\ \A j \in 1..Len(before[k].bits) :
            [after[k].bits[j] EXCEPT
               !.last_update = before[k].bits[j].last_update,
               !.current_value = before[k].bits[j].current_value]
              = before[k].bits[j]
       /\ ( before[k].addr < start_address
            \/ before[k].addr >= start_address + quantity )
            => after[k] = before[k]

C32_Step ==
  op'.name = "read" =>
    /\ \A sp \in Spaces \ {address_type_map(op'.function_code)} :
         data_config'[sp] = data_config[sp]
    /\ \A sp \in BitSpaces \ {address_type_map(op'.function_code)} :
         bit_config'[sp] = bit_config[sp]
    /\ OnlyRefreshed(data_config[address_type_map(op'.function_code)],
                     data_config'[address_type_map(op'.function_code)],
                     op'.start_address,
                     ClampQuantity(op'.function_code, op'.quantity))
    /\ address_type_map(op'.function_code) \in BitSpaces =>
         OnlyRefreshedBits(bit_config[address_type_map(op'.function_code)],
                           bit_config'[address_type_map(op'.function_code)],
                           op'.start_address,
                           ClampQuantity(op'.function_code, op'.quantity))

(* C32: a read adds and removes no entry and no overlay bit, changes of an  *)
(* entry or bit nothing but last_update and current_value, changes those    *)
(* only for entries and overlays of the addressed space that lie in the     *)
(* window, and leaves the other three address spaces as they were.          *)
C32_ReadFrame == [][C32_Step]_vars

----------------------------------------------------------------------------
(* Properties of the range of generated values                             *)

\* the entry e has a producer with a declared range [min, max] that is not
\* a random increment, and an integer cached
Ranged(e) ==
  /\ callable(e.value)
  /\ e.value.kind # "random_increment_func"
  /\ Len(e.data_range) = 2
  /\ e.current_value.t = "int"

(* C33: the cached value of an entry whose producer has a declared range   *)
(* [min, max] and is not a random increment lies in [min, max] after every *)
(* install and refresh, for a ramp also after its accumulator has wrapped. *)
C33_RangeKept ==
  \A sp \in Spaces : \A k \in 1..Len(data_config[sp]) :
    Ranged(data_config[sp][k]) =>
      /\ data_config[sp][k].current_value.n >= data_config[sp][k].data_range[1]
      /\ data_config[sp][k].current_value.n <= data_config[sp][k].data_range[2]

----------------------------------------------------------------------------
(* Properties of cumulative counters                                       *)

(* C34: the accumulator of a random increment created with max_value as    *)
(* its cap never exceeds max_value, however often it has been invoked.     *)
C34_CapKept ==
  \A sp \in Spaces : \A k \in 1..Len(data_config[sp]) :
    data_config[sp][k].value.kind = "random_increment_func" =>
      closure[data_config[sp][k].value.id] <= data_config[sp][k].value.c

----------------------------------------------------------------------------
(* Properties of periodic switches                                         *)

\* the entry or bit e of a periodic switch holds the value of the first
\* half of the period for the time it was produced at
PeriodicLaw(e) ==
  e.value.kind = "periodic_boolean_func" =>
    (PyBool(e.current_value) <=> 2 * (e.last_update % e.value.a) < e.value.a)

(* C35: the value a periodic switch of period p >= 1 produced at time t is *)
(* 1 exactly when 2 * (t mod p) < p, for odd p too and for p = 1 always;   *)
(* the same for the periodic bits of an overlay.                           *)
C35_PeriodicHalf ==
  /\ \A sp \in Spaces : \A k \in 1..Len(data_config[sp]) :
       PeriodicLaw(data_config[sp][k])
  /\ \A sp \in BitSpaces : \A k \in 1..Len(bit_config[sp]) :
       \A j \in 1..Len(bit_config[sp][k].bits) :
          PeriodicLaw(bit_config[sp][k].bits[j])

----------------------------------------------------------------------------
(* Properties of the packing of integers                                   *)

\* the words of the integer v in a 32-bit type, most significant first;
\* (v \div 2^16) mod 2^16 is the upper word of v mod 2^32
Words32(v) == <<(v \div 65536) % 65536, v % 65536>>

\* the words of the integer v in the integer type data_type
IntWords(v, data_type) ==
  IF data_type \in {"int32", "uint32"} THEN Words32(v) ELSE <<v % 65536>>

\* the first quantity words of the sequence w, filled up with zeros
Padded(w, quantity) ==
  [i \in 1..quantity |-> IF i <= Len(w) THEN w[i] ELSE 0]

\* the words as bytes, the upper byte of each word first
BigEndian(w) ==
  [j \in 1..(2 * Len(w)) |->
     IF j % 2 = 1 THEN w[(j + 1) \div 2] \div 256 ELSE w[j \div 2] % 256]

\* the entry e, a fixed integer of an integer type, is packed and cached as
\* its type says
PackedAsInt(e) ==
  /\ Packed(e) = IntWords(e.value.v.n, e.data_type)
  /\ e.data_type \in {"int16", "uint16"} =>
       e.current_value = IntV(e.value.v.n % 65536)

(* C36: an integer v of type int32 or uint32 is packed as the two words    *)
(* (v mod 2^32) div 2^16 and v mod 2^16, upper word first, and of type     *)
(* int16 or uint16 as the word v mod 2^16, which is also the value cached; *)
(* an FC3/FC4 response carries these words with the upper byte first.      *)
C36_IntegerWords ==
  /\ \A sp \in BitSpaces : \A k \in 1..Len(data_config[sp]) :
       PackedAsInt(data_config[sp][k])
  /\ \A c \in Conns :
       (JustRead(c) /\ op.function_code \in {3, 4}
          /\ HasKey(data_config[OpSpace], 0)) =>
         response[c] =
           <<request[c].transaction_id \div 256,
             request[c].transaction_id % 256, 0, 0, 0,
             3 + 2 * op.quantity, request[c].unit_id, op.function_code,
             2 * op.quantity>>
           \o BigEndian(Padded(IntWords(Get(data_config[OpSpace], 0).value.v.n,
                                        Get(data_config[OpSpace], 0).data_type),
                               op.quantity))

\* the int32 value -2 at input register 0 has been read and is answered
\* with FF FF FF FE
C36_Witness ==
  /\ JustRead(1)
  /\ op.function_code = 4
  /\ HasKey(data_config[IR], 0)
  /\ Get(data_config[IR], 0).data_type = "int32"
  /\ Get(data_config[IR], 0).value.v.n = -2
  /\ SubSeq(response[1], 10, 13) = <<255, 255, 255, 254>>

\* the int16 value 1000 at holding register 0 has been read and is answered
\* with 00 01 00 00 00 05 01 03 02 03 E8
ScenarioS1 ==
  /\ JustRead(1)
  /\ op.function_code = 3
  /\ HasKey(data_config[HR], 0)
  /\ Get(data_config[HR], 0).data_type = "int16"
  /\ Get(data_config[HR], 0).value.v.n = 1000
  /\ response[1] = <<0, 1, 0, 0, 0, 5, 1, 3, 2, 3, 232>>

----------------------------------------------------------------------------
(* Properties of the state of the producers across a reset                 *)

\* every entry of the dicts dc has been produced at time t
FreshAt(dc, t) ==
  \A sp \in Spaces : \A k \in 1..Len(dc[sp]) :
     dc[sp][k].last_update = t /\ dc[sp][k].current_value # NoValue

\* the cell of every ramp and random increment of the snapshot dc holds in
\* clo what the entry had cached when the snapshot was taken
CellsAsIn(dc, clo) ==
  \A sp \in Spaces : \A k \in 1..Len(dc[sp]) :
     dc[sp][k].value.kind \in {"ramp_func", "random_increment_func"} =>
        clo[dc[sp][k].value.id] = dc[sp][k].current_value.n

C37_Step ==
  (op'.name = "reset_data" /\ Truthy(original_data_config) /\ ~aliased) =>
     /\ FreshAt(data_config', now)
     /\ CellsAsIn(original_data_config, closure')

(* C37: a reset to a snapshot leaves every entry with a cached value        *)
(* produced at the time of the reset, and every ramp and random increment   *)
(* with the accumulator it had when the snapshot was taken, so that it      *)
(* produces the same values again as it did after the snapshot.             *)
C37_ResetReseeds == [][C37_Step]_vars

----------------------------------------------------------------------------
(* Properties of the observer's events                                     *)

\* the worker of connection c has delivered its disconnect event
Told(c) == pc[c] \in {"removing", "closed"}

\* the events of connection c so far: one connect first, then requests,
\* and one disconnect last once the worker has passed its finally block
EventsInOrder(c) ==
  /\ pc[c] = "idle" => events[c] = <<>>
  /\ pc[c] # "idle" =>
       /\ Len(events[c]) >= 1
       /\ events[c][1] = "client_connect"
       /\ Count(events[c], "client_connect") = 1
  /\ Count(events[c], "client_disconnect") = IF Told(c) THEN 1 ELSE 0
  /\ Told(c) => events[c][Len(events[c])] = "client_disconnect"
  /\ \A i \in 2..(Len(events[c]) - 1) : events[c][i] = "request_received"

EventsOrdered == \A c \in Conns : EventsInOrder(c)

\* the connection of c has been ended on the server's side: the operator
\* has disconnected it, or the server has been shut down
EndedHere(c) == Working(c) /\ (Severed(c) \/ ~running)

(* C38: the observer gets one connect event before the requests of a       *)
(* connection, and one disconnect event after them whichever way the       *)
(* connection ends: once the operator has disconnected the client or the   *)
(* server has been shut down, the disconnect event of the connection is    *)
(* delivered in the end, also when the client sends nothing further.       *)
C38_DisconnectDelivered ==
  \A c \in Conns :
    EndedHere(c) ~> (Count(events[c], "client_disconnect") = 1)

----------------------------------------------------------------------------
(* Properties of the table of active clients                               *)

\* the entry of connection c is removed by this step of the operator
ByOperator(c) == op'.name = "disconnect_client" /\ op'.c = c

\* the entry of connection c appears with the accept and with nothing
\* else, and goes with the close of the worker or with the operator's
\* disconnect and with nothing else; a closed worker leaves no entry
TableStep(c) ==
  /\ (~active_clients[c] /\ active_clients'[c]) =>
       (pc[c] = "idle" /\ pc'[c] # "idle")
  /\ (pc[c] = "idle" /\ pc'[c] # "idle") => active_clients'[c]
  /\ (active_clients[c] /\ ~active_clients'[c]) =>
       ((pc[c] # "closed" /\ pc'[c] = "closed") \/ ByOperator(c))
  /\ pc'[c] = "closed" => ~active_clients'[c]

(* C39: the table of active clients has the entry of a client from the     *)
(* accept until its worker closes: the worker adds it, the worker's close  *)
(* removes it, no closed worker has an entry, and when the operator        *)
(* disconnects the same client the worker's own removal does not fail and  *)
(* no entry stays behind.                                                  *)
C39_Step ==
  /\ \A c \in Conns : TableStep(c)
  /\ ~(op'.name = "remove" /\ op'.raised)

C39_TableFollowsWorkers == [][C39_Step]_vars

====
